---------------------------- MODULE Spec2Model ----------------------------
(***************************************************************************)
(* State machine of the charity platform's on-chain core:                  *)
(*   NGORegistry, ServiceProviderRegistry  (src/scripts/healthCheck.js)    *)
(*   CampaignFactory                       (src/scripts/healthCheck.js)    *)
(*   SoulboundToken                        (src/unnamed/part_007)          *)
(* Every external call is one atomic transaction.  Each handler op has an  *)
(* operator opErr giving the revert reason of the call in the current      *)
(* state (Ok when no modifier or require fails); a reverted call leaves    *)
(* the whole state as it was.                                              *)
(***************************************************************************)
EXTENDS Integers, Sequences, FiniteSets, TLC

----------------------------------------------------------------------------
(* Bounds of the model *)

MaxTime == 2
MaxAmount == 3
MaxCampaigns == 1
MaxTokens == 2
MaxNGOs == 1
MaxProposals == 2
MaxWarps == 1
MaxRun == 50
MaxMilestones == 2

(* Program constants *)

BasisPoints == 10000
VOTING_DURATION == 604800
MIN_REPUTATION_TO_VOTE == 100
VOTE_WEIGHT_BASE == 100
REPUTATION_CHANGE_PER_VOTE == 10
InitialScore == 500
ScoreScale == 1000
RegisteredScore == 500
MaxScore == 1000

----------------------------------------------------------------------------
(* Identities *)

Zero == "0x0"
Admin == "admin"
SPRegistry == "spRegistry"

NgoAddrs == {"ngoA"}
DonorAddrs == {"user", "prov"}
ProviderAddrs == {"prov"}
Addr == {Admin, "ngoA", "user", "prov"}
Beneficiaries == {"user"}

Names == {"", "n"}
Proofs == {"", "Qm"}
Durations == {0, 1}
Validities == {0, 1}

RegistryAdmins == {Admin}
RegistryVerifiers == {Admin}
ProviderVerifiers == {Admin}
TokenAdmins == {Admin}
TokenDefaultAdmins == {Admin}
FactoryAdmins == {Admin}
Factory == "campaignFactory"

GovernanceDefaultAdmins == {Admin}
GovUsers == Addr \cup {Zero}

NgoIds == 1..MaxNGOs
ProposalIds == 1..MaxRun
CampaignIds == 1..MaxCampaigns
TokenIds == 0..(MaxTokens - 1)

Ok == ""
Unauthorized == "AccessControlUnauthorizedAccount"
EnforcedPause == "EnforcedPause"
ReentrantCall == "ReentrancyGuardReentrantCall"

----------------------------------------------------------------------------
VARIABLES
    now,
    ngoIdCounter, addressToNgoId, ngos, adminVerificationFrozen,
    addressToProviderId, providers,
    tokenIdCounter, tokenMetadata, owners, redeemerRole, tokenPaused,
    campaignIdCounter, campaigns, campaignDonors, campaignDonations,
    campaignFunds, factoryPaused, balance, released,
    governanceAdminRole, userReputations, proposalIdCounter, proposals,
    ngoVerificationProposals, ngoChallenges,
    platformFeePercentage, feeCollector, minterRole,
    entered, frame, received,
    campaignMilestones

timeVars == <<now>>
ngoVars == <<ngoIdCounter, addressToNgoId, ngos, adminVerificationFrozen>>
providerVars == <<addressToProviderId, providers>>
tokenVars == <<tokenIdCounter, tokenMetadata, owners, redeemerRole, tokenPaused>>
factoryVars == <<campaignIdCounter, campaigns, campaignDonors, campaignDonations,
                 campaignFunds, factoryPaused, balance, released>>
govVars == <<governanceAdminRole, userReputations, proposalIdCounter, proposals,
             ngoVerificationProposals, ngoChallenges>>
configVars == <<platformFeePercentage, feeCollector, minterRole>>
callVars == <<entered, frame, received>>
milestoneVars == <<campaignMilestones>>
vars == <<timeVars, ngoVars, providerVars, tokenVars, factoryVars, govVars,
          configVars, callVars, milestoneVars>>

----------------------------------------------------------------------------
(* Zero values of the storage mappings *)

NoNGO == [ngoId |-> 0, ngoAddress |-> Zero, status |-> "Pending", isActive |-> FALSE,
          reputationScore |-> 0, totalCampaigns |-> 0, totalFundsRaised |-> 0,
          totalBeneficiaries |-> 0]

NoProvider == [providerId |-> 0, status |-> "Pending", isActive |-> FALSE]

NoCampaign == [campaignId |-> 0, ngoAddress |-> Zero, targetAmount |-> 0,
               raisedAmount |-> 0, endDate |-> 0, status |-> "Draft",
               totalDonors |-> 0, totalBeneficiaries |-> 0, hasMilestones |-> FALSE]

NoVote == [hasVoted |-> FALSE, voteType |-> "Upvote", votingPower |-> 0,
           reputationStake |-> 0]

NoProposal == [proposalId |-> 0, ngoId |-> 0, proposalType |-> "Verification",
               proposer |-> Zero, startTime |-> 0, endTime |-> 0, upvotes |-> 0,
               downvotes |-> 0, totalVotingPower |-> 0, executed |-> FALSE,
               votes |-> [v \in Addr |-> NoVote]]

NoReputation == [score |-> 0, totalProposals |-> 0, successfulVerifications |-> 0,
                 successfulChallenges |-> 0, lastActivity |-> 0]

NoToken == [tokenId |-> 0, beneficiary |-> Zero, campaignId |-> 0,
            entitledAmount |-> 0, issuedAt |-> 0, expiryDate |-> 0,
            isRedeemed |-> FALSE, redeemedBy |-> Zero, redeemedAt |-> 0,
            proofOfServiceHash |-> "", status |-> "Active"]

(* No releaseFunds call in progress *)
NoFrame == [campaignId |-> 0, recipient |-> Zero, amount |-> 0, fee |-> 0,
            netAmount |-> 0, stage |-> "none", balance |-> 0,
            received |-> [a \in Addr |-> 0]]

----------------------------------------------------------------------------
(* NGORegistry *)

logActivityErr(caller, ngoId) ==
    IF ~(caller \in RegistryAdmins \/ caller \in RegistryVerifiers
         \/ ngos[ngoId].ngoAddress = caller)
    THEN "Not authorized"
    ELSE IF ngos[ngoId].ngoId = 0 THEN "NGO does not exist"
    ELSE Ok

registerNGOErr(caller, ngoAddress, name, registrationNumber) ==
    IF ngoAddress = Zero THEN "Invalid NGO address"
    ELSE IF addressToNgoId[ngoAddress] # 0 THEN "NGO already registered"
    ELSE IF name = "" THEN "Name cannot be empty"
    ELSE IF registrationNumber = "" THEN "Registration number required"
    ELSE IF ~(caller \in RegistryAdmins \/ caller \in RegistryVerifiers
              \/ ngoAddress = caller)
    THEN "Not authorized"
    ELSE Ok

registerNGO(caller, ngoAddress, name, registrationNumber) ==
    LET e == registerNGOErr(caller, ngoAddress, name, registrationNumber)
        ngoId == ngoIdCounter + 1
    IN  /\ ngoIdCounter < MaxNGOs \/ e # Ok
        /\ IF e = Ok
           THEN /\ ngoIdCounter' = ngoId
                /\ ngos' = [ngos EXCEPT ![ngoId] =
                              [ngoId |-> ngoId, ngoAddress |-> ngoAddress,
                               status |-> "Pending", isActive |-> TRUE,
                               reputationScore |-> RegisteredScore,
                               totalCampaigns |-> 0, totalFundsRaised |-> 0,
                               totalBeneficiaries |-> 0]]
                /\ addressToNgoId' = [addressToNgoId EXCEPT ![ngoAddress] = ngoId]
                /\ UNCHANGED adminVerificationFrozen
           ELSE UNCHANGED ngoVars
        /\ UNCHANGED <<timeVars, providerVars, tokenVars, factoryVars, govVars,
                     configVars, callVars, milestoneVars>>

(* verifyNGO without its require on the freeze flag *)
verifyNGOErr_IgnoreFreeze(caller, ngoId) ==
    IF caller \notin RegistryVerifiers THEN Unauthorized
    ELSE IF ngos[ngoId].ngoId = 0 THEN "NGO does not exist"
    ELSE IF ngos[ngoId].status # "Pending" THEN "NGO is not pending verification"
    ELSE logActivityErr(caller, ngoId)

(* verifyNGO without its require on the Pending status *)
verifyNGOErr_AnyStatus(caller, ngoId) ==
    IF caller \notin RegistryVerifiers THEN Unauthorized
    ELSE IF ngos[ngoId].ngoId = 0 THEN "NGO does not exist"
    ELSE IF adminVerificationFrozen THEN "Admin verification is frozen"
    ELSE logActivityErr(caller, ngoId)

verifyNGOErr(caller, ngoId) ==
    IF caller \notin RegistryVerifiers THEN Unauthorized
    ELSE IF ngos[ngoId].ngoId = 0 THEN "NGO does not exist"
    ELSE IF ngos[ngoId].status # "Pending" THEN "NGO is not pending verification"
    ELSE IF adminVerificationFrozen THEN "Admin verification is frozen"
    ELSE logActivityErr(caller, ngoId)

verifyNGO(caller, ngoId) ==
    LET e == verifyNGOErr(caller, ngoId)
    IN  /\ IF e = Ok
           THEN /\ ngos' = [ngos EXCEPT ![ngoId].status = "Verified"]
                /\ UNCHANGED <<ngoIdCounter, addressToNgoId, adminVerificationFrozen>>
           ELSE UNCHANGED ngoVars
        /\ UNCHANGED <<timeVars, providerVars, tokenVars, factoryVars, govVars,
                     configVars, callVars, milestoneVars>>

verifyNGOThroughGovernanceErr(caller, ngoId) ==
    IF ngos[ngoId].ngoId = 0 THEN "NGO does not exist"
    ELSE IF ngos[ngoId].status # "Pending" THEN "NGO is not pending verification"
    ELSE IF adminVerificationFrozen /\ ~(userReputations[caller].score >= 100)
    THEN "Governance-only: insufficient reputation"
    ELSE IF ~adminVerificationFrozen
            /\ ~(caller \in RegistryVerifiers \/ userReputations[caller].score >= 100)
    THEN "Not authorized"
    ELSE logActivityErr(caller, ngoId)

verifyNGOThroughGovernance(caller, ngoId) ==
    LET e == verifyNGOThroughGovernanceErr(caller, ngoId)
    IN  /\ IF e = Ok
           THEN /\ ngos' = [ngos EXCEPT ![ngoId].status = "Verified"]
                /\ UNCHANGED <<ngoIdCounter, addressToNgoId, adminVerificationFrozen>>
           ELSE UNCHANGED ngoVars
        /\ UNCHANGED <<timeVars, providerVars, tokenVars, factoryVars, govVars,
                     configVars, callVars, milestoneVars>>

(* rejectNGO without its require on the status *)
rejectNGOErr_AnyStatus(caller, ngoId) ==
    IF caller \notin RegistryVerifiers THEN Unauthorized
    ELSE IF ngos[ngoId].ngoId = 0 THEN "NGO does not exist"
    ELSE logActivityErr(caller, ngoId)

rejectNGOErr(caller, ngoId) ==
    IF caller \notin RegistryVerifiers THEN Unauthorized
    ELSE IF ngos[ngoId].ngoId = 0 THEN "NGO does not exist"
    ELSE IF ngos[ngoId].status # "Pending" THEN "NGO is not pending verification"
    ELSE logActivityErr(caller, ngoId)

rejectNGO(caller, ngoId) ==
    LET e == rejectNGOErr(caller, ngoId)
    IN  /\ IF e = Ok
           THEN /\ ngos' = [ngos EXCEPT ![ngoId].status = "Rejected"]
                /\ UNCHANGED <<ngoIdCounter, addressToNgoId, adminVerificationFrozen>>
           ELSE UNCHANGED ngoVars
        /\ UNCHANGED <<timeVars, providerVars, tokenVars, factoryVars, govVars,
                     configVars, callVars, milestoneVars>>

suspendNGOErr(caller, ngoId) ==
    IF caller \notin RegistryAdmins THEN Unauthorized
    ELSE IF ngos[ngoId].ngoId = 0 THEN "NGO does not exist"
    ELSE IF ngos[ngoId].status # "Verified" THEN "Only verified NGOs can be suspended"
    ELSE logActivityErr(caller, ngoId)

suspendNGO(caller, ngoId) ==
    LET e == suspendNGOErr(caller, ngoId)
    IN  /\ IF e = Ok
           THEN /\ ngos' = [ngos EXCEPT ![ngoId].status = "Suspended",
                                        ![ngoId].isActive = FALSE]
                /\ UNCHANGED <<ngoIdCounter, addressToNgoId, adminVerificationFrozen>>
           ELSE UNCHANGED ngoVars
        /\ UNCHANGED <<timeVars, providerVars, tokenVars, factoryVars, govVars,
                     configVars, callVars, milestoneVars>>

(* The second member of the userReputations getter's tuple is bound to      *)
(* reputationScore: the value compared with 200 is totalProposals.         *)
suspendNGOThroughGovernanceErr(caller, ngoId) ==
    IF ngos[ngoId].ngoId = 0 THEN "NGO does not exist"
    ELSE IF ngos[ngoId].status # "Verified" THEN "Only verified NGOs can be suspended"
    ELSE IF ~(userReputations[caller].totalProposals >= 200)
    THEN "Insufficient reputation"
    ELSE logActivityErr(caller, ngoId)

suspendNGOThroughGovernance(caller, ngoId) ==
    LET e == suspendNGOThroughGovernanceErr(caller, ngoId)
    IN  /\ IF e = Ok
           THEN /\ ngos' = [ngos EXCEPT ![ngoId].status = "Suspended",
                                        ![ngoId].isActive = FALSE]
                /\ UNCHANGED <<ngoIdCounter, addressToNgoId, adminVerificationFrozen>>
           ELSE UNCHANGED ngoVars
        /\ UNCHANGED <<timeVars, providerVars, tokenVars, factoryVars, govVars,
                     configVars, callVars, milestoneVars>>

blacklistNGOErr(caller, ngoId) ==
    IF caller \notin RegistryAdmins THEN Unauthorized
    ELSE IF ngos[ngoId].ngoId = 0 THEN "NGO does not exist"
    ELSE logActivityErr(caller, ngoId)

blacklistNGO(caller, ngoId) ==
    LET e == blacklistNGOErr(caller, ngoId)
    IN  /\ IF e = Ok
           THEN /\ ngos' = [ngos EXCEPT ![ngoId].status = "Blacklisted",
                                        ![ngoId].isActive = FALSE]
                /\ UNCHANGED <<ngoIdCounter, addressToNgoId, adminVerificationFrozen>>
           ELSE UNCHANGED ngoVars
        /\ UNCHANGED <<timeVars, providerVars, tokenVars, factoryVars, govVars,
                     configVars, callVars, milestoneVars>>

(* updateReputation without its bound on the new score *)
updateReputationErr_NoBound(caller, ngoId, newScore) ==
    IF caller \notin RegistryAdmins THEN Unauthorized
    ELSE IF ngos[ngoId].ngoId = 0 THEN "NGO does not exist"
    ELSE Ok

updateReputationErr(caller, ngoId, newScore) ==
    IF caller \notin RegistryAdmins THEN Unauthorized
    ELSE IF ~(newScore <= MaxScore) THEN "Score must be between 0 and 1000"
    ELSE IF ngos[ngoId].ngoId = 0 THEN "NGO does not exist"
    ELSE Ok

updateReputation(caller, ngoId, newScore) ==
    LET e == updateReputationErr(caller, ngoId, newScore)
    IN  /\ IF e = Ok
           THEN /\ ngos' = [ngos EXCEPT ![ngoId].reputationScore = newScore]
                /\ UNCHANGED <<ngoIdCounter, addressToNgoId, adminVerificationFrozen>>
           ELSE UNCHANGED ngoVars
        /\ UNCHANGED <<timeVars, providerVars, tokenVars, factoryVars, govVars,
                       configVars, callVars, milestoneVars>>

updateStatisticsErr(caller, ngoId) ==
    IF caller \notin RegistryAdmins THEN Unauthorized
    ELSE IF ngos[ngoId].ngoId = 0 THEN "NGO does not exist"
    ELSE Ok

updateStatistics(caller, ngoId, campaignCount, fundsRaised, beneficiaries) ==
    LET e == updateStatisticsErr(caller, ngoId)
    IN  /\ IF e = Ok
           THEN /\ ngos' = [ngos EXCEPT
                              ![ngoId].totalCampaigns = campaignCount,
                              ![ngoId].totalFundsRaised = fundsRaised,
                              ![ngoId].totalBeneficiaries = beneficiaries]
                /\ UNCHANGED <<ngoIdCounter, addressToNgoId, adminVerificationFrozen>>
           ELSE UNCHANGED ngoVars
        /\ UNCHANGED <<timeVars, providerVars, tokenVars, factoryVars, govVars,
                       configVars, callVars, milestoneVars>>

freezeAdminVerificationErr(caller) ==
    IF caller \notin RegistryAdmins THEN Unauthorized
    ELSE IF adminVerificationFrozen THEN "Admin verification already frozen"
    ELSE Ok

freezeAdminVerification(caller) ==
    LET e == freezeAdminVerificationErr(caller)
    IN  /\ IF e = Ok
           THEN /\ adminVerificationFrozen' = TRUE
                /\ UNCHANGED <<ngoIdCounter, addressToNgoId, ngos>>
           ELSE UNCHANGED ngoVars
        /\ UNCHANGED <<timeVars, providerVars, tokenVars, factoryVars, govVars,
                     configVars, callVars, milestoneVars>>

isNGOVerified(ngoAddress) ==
    LET ngoId == addressToNgoId[ngoAddress]
    IN  IF ngoId = 0 THEN FALSE
        ELSE ngos[ngoId].status = "Verified" /\ ngos[ngoId].isActive

----------------------------------------------------------------------------
(* ServiceProviderRegistry *)

registerProviderErr(providerAddress) ==
    IF providerAddress = Zero THEN "Invalid address"
    ELSE IF addressToProviderId[providerAddress] # 0 THEN "Provider already registered"
    ELSE Ok

ProviderCount == Cardinality({a \in Addr : addressToProviderId[a] # 0})

registerProvider(caller, providerAddress) ==
    LET e == registerProviderErr(providerAddress)
        providerId == ProviderCount + 1
    IN  /\ IF e = Ok
           THEN /\ providers' = [providers EXCEPT ![providerId] =
                                   [providerId |-> providerId, status |-> "Pending",
                                    isActive |-> TRUE]]
                /\ addressToProviderId' =
                       [addressToProviderId EXCEPT ![providerAddress] = providerId]
           ELSE UNCHANGED providerVars
        /\ UNCHANGED <<timeVars, ngoVars, tokenVars, factoryVars, govVars,
                     configVars, callVars, milestoneVars>>

verifyProviderErr(caller, providerId) ==
    IF caller \notin ProviderVerifiers THEN Unauthorized
    ELSE IF providers[providerId].providerId = 0 THEN "Provider does not exist"
    ELSE IF providers[providerId].status # "Pending" THEN "Provider is not pending"
    ELSE Ok

verifyProvider(caller, providerId) ==
    LET e == verifyProviderErr(caller, providerId)
    IN  /\ IF e = Ok
           THEN /\ providers' = [providers EXCEPT ![providerId].status = "Verified"]
                /\ UNCHANGED addressToProviderId
           ELSE UNCHANGED providerVars
        /\ UNCHANGED <<timeVars, ngoVars, tokenVars, factoryVars, govVars,
                     configVars, callVars, milestoneVars>>

isProviderVerified(providerAddress) ==
    LET providerId == addressToProviderId[providerAddress]
    IN  IF providerId = 0 THEN FALSE
        ELSE providers[providerId].status = "Verified"
             /\ providers[providerId].isActive

----------------------------------------------------------------------------
(* SoulboundToken *)

exists(tokenId) == owners[tokenId] # Zero

mintTokenErr(caller, beneficiary, entitledAmount, validityPeriod) ==
    IF caller \notin minterRole THEN Unauthorized
    ELSE IF tokenPaused THEN EnforcedPause
    ELSE IF beneficiary = Zero THEN "Invalid beneficiary address"
    ELSE IF entitledAmount = 0 THEN "Entitled amount must be greater than 0"
    ELSE IF validityPeriod = 0 THEN "Validity period must be greater than 0"
    ELSE Ok

(* The token record and owner entry written by a mint that went through *)
mintedMetadata(beneficiary, campaignId, entitledAmount, validityPeriod) ==
    [tokenId |-> tokenIdCounter, beneficiary |-> beneficiary,
     campaignId |-> campaignId, entitledAmount |-> entitledAmount,
     issuedAt |-> now, expiryDate |-> now + validityPeriod,
     isRedeemed |-> FALSE, redeemedBy |-> Zero, redeemedAt |-> 0,
     proofOfServiceHash |-> "", status |-> "Active"]

mintEffect(beneficiary, campaignId, entitledAmount, validityPeriod) ==
    /\ tokenIdCounter' = tokenIdCounter + 1
    /\ owners' = [owners EXCEPT ![tokenIdCounter] = beneficiary]
    /\ tokenMetadata' = [tokenMetadata EXCEPT ![tokenIdCounter] =
           mintedMetadata(beneficiary, campaignId, entitledAmount, validityPeriod)]
    /\ UNCHANGED <<redeemerRole, tokenPaused>>

mintToken(caller, beneficiary, campaignId, entitledAmount, validityPeriod) ==
    LET e == mintTokenErr(caller, beneficiary, entitledAmount, validityPeriod)
    IN  /\ tokenIdCounter < MaxTokens \/ e # Ok
        /\ IF e = Ok
           THEN mintEffect(beneficiary, campaignId, entitledAmount, validityPeriod)
           ELSE UNCHANGED tokenVars
        /\ UNCHANGED <<timeVars, ngoVars, providerVars, factoryVars, govVars,
                     configVars, callVars, milestoneVars>>

(* grantRole and revokeRole of MINTER_ROLE, open to the holders of the     *)
(* token contract's DEFAULT_ADMIN_ROLE                                     *)
grantMinterErr(caller, account) ==
    IF caller \notin TokenDefaultAdmins THEN Unauthorized ELSE Ok

grantMinter(caller, account) ==
    LET e == grantMinterErr(caller, account)
    IN  /\ IF e = Ok
           THEN minterRole' = minterRole \cup {account}
           ELSE UNCHANGED minterRole
        /\ UNCHANGED <<timeVars, ngoVars, providerVars, tokenVars, factoryVars,
                       govVars, platformFeePercentage, feeCollector, callVars, milestoneVars>>

revokeMinterErr(caller, account) ==
    IF caller \notin TokenDefaultAdmins THEN Unauthorized ELSE Ok

revokeMinter(caller, account) ==
    LET e == revokeMinterErr(caller, account)
    IN  /\ IF e = Ok
           THEN minterRole' = minterRole \ {account}
           ELSE UNCHANGED minterRole
        /\ UNCHANGED <<timeVars, ngoVars, providerVars, tokenVars, factoryVars,
                       govVars, platformFeePercentage, feeCollector, callVars, milestoneVars>>

(* redeemToken without its two requires on the token's state *)
redeemTokenErr_NoStateCheck(caller, tokenId, proofOfServiceHash) ==
    IF caller \notin redeemerRole THEN Unauthorized
    ELSE IF tokenPaused THEN EnforcedPause
    ELSE IF ~exists(tokenId) THEN "Token does not exist"
    ELSE IF ~(now <= tokenMetadata[tokenId].expiryDate) THEN "Token has expired"
    ELSE IF proofOfServiceHash = "" THEN "Proof of service required"
    ELSE Ok

redeemTokenErr(caller, tokenId, proofOfServiceHash) ==
    IF caller \notin redeemerRole THEN Unauthorized
    ELSE IF tokenPaused THEN EnforcedPause
    ELSE IF ~exists(tokenId) THEN "Token does not exist"
    ELSE IF tokenMetadata[tokenId].status # "Active" THEN "Token is not active"
    ELSE IF tokenMetadata[tokenId].isRedeemed THEN "Token already redeemed"
    ELSE IF ~(now <= tokenMetadata[tokenId].expiryDate) THEN "Token has expired"
    ELSE IF proofOfServiceHash = "" THEN "Proof of service required"
    ELSE Ok

(* redeemToken's writes without the isRedeemed flag *)
redeemedMetadata_NoFlag(caller, tokenId, proofOfServiceHash) ==
    [tokenMetadata[tokenId] EXCEPT !.redeemedBy = caller,
                                   !.redeemedAt = now,
                                   !.proofOfServiceHash = proofOfServiceHash,
                                   !.status = "Redeemed"]

redeemedMetadata(caller, tokenId, proofOfServiceHash) ==
    [tokenMetadata[tokenId] EXCEPT !.isRedeemed = TRUE,
                                   !.redeemedBy = caller,
                                   !.redeemedAt = now,
                                   !.proofOfServiceHash = proofOfServiceHash,
                                   !.status = "Redeemed"]

redeemToken(caller, tokenId, proofOfServiceHash) ==
    LET e == redeemTokenErr(caller, tokenId, proofOfServiceHash)
    IN  /\ IF e = Ok
           THEN /\ tokenMetadata' = [tokenMetadata EXCEPT ![tokenId] =
                       redeemedMetadata(caller, tokenId, proofOfServiceHash)]
                /\ UNCHANGED <<tokenIdCounter, owners, redeemerRole, tokenPaused>>
           ELSE UNCHANGED tokenVars
        /\ UNCHANGED <<timeVars, ngoVars, providerVars, factoryVars, govVars,
                     configVars, callVars, milestoneVars>>

(* isTokenRedeemable without its comparison with the expiry date *)
isTokenRedeemable_NoExpiry(tokenId) ==
    /\ exists(tokenId)
    /\ tokenMetadata[tokenId].status = "Active"
    /\ ~tokenMetadata[tokenId].isRedeemed

isTokenRedeemable(tokenId) ==
    /\ exists(tokenId)
    /\ tokenMetadata[tokenId].status = "Active"
    /\ ~tokenMetadata[tokenId].isRedeemed
    /\ now <= tokenMetadata[tokenId].expiryDate

(* revokeToken without its require on the token's status *)
revokeTokenErr_NoStatusCheck(caller, tokenId) ==
    IF caller \notin TokenAdmins THEN Unauthorized
    ELSE IF ~exists(tokenId) THEN "Token does not exist"
    ELSE Ok

(* revokeToken without its role check *)
revokeTokenErr_AnyCaller(caller, tokenId) ==
    IF ~exists(tokenId) THEN "Token does not exist"
    ELSE IF tokenMetadata[tokenId].status # "Active" THEN "Token is not active"
    ELSE Ok

revokeTokenErr(caller, tokenId) ==
    IF caller \notin TokenAdmins THEN Unauthorized
    ELSE IF ~exists(tokenId) THEN "Token does not exist"
    ELSE IF tokenMetadata[tokenId].status # "Active" THEN "Token is not active"
    ELSE Ok

revokeToken(caller, tokenId) ==
    LET e == revokeTokenErr(caller, tokenId)
    IN  /\ IF e = Ok
           THEN /\ tokenMetadata' = [tokenMetadata EXCEPT ![tokenId].status = "Revoked"]
                /\ UNCHANGED <<tokenIdCounter, owners, redeemerRole, tokenPaused>>
           ELSE UNCHANGED tokenVars
        /\ UNCHANGED <<timeVars, ngoVars, providerVars, factoryVars, govVars,
                     configVars, callVars, milestoneVars>>

(* markExpired accepting the expiry instant itself *)
markExpiredErr_AtExpiry(tokenId) ==
    IF ~exists(tokenId) THEN "Token does not exist"
    ELSE IF tokenMetadata[tokenId].status # "Active" THEN "Token is not active"
    ELSE IF ~(now >= tokenMetadata[tokenId].expiryDate) THEN "Token has not expired yet"
    ELSE Ok

markExpiredErr(tokenId) ==
    IF ~exists(tokenId) THEN "Token does not exist"
    ELSE IF tokenMetadata[tokenId].status # "Active" THEN "Token is not active"
    ELSE IF ~(now > tokenMetadata[tokenId].expiryDate) THEN "Token has not expired yet"
    ELSE Ok

markExpired(caller, tokenId) ==
    LET e == markExpiredErr(tokenId)
    IN  /\ IF e = Ok
           THEN /\ tokenMetadata' = [tokenMetadata EXCEPT ![tokenId].status = "Expired"]
                /\ UNCHANGED <<tokenIdCounter, owners, redeemerRole, tokenPaused>>
           ELSE UNCHANGED tokenVars
        /\ UNCHANGED <<timeVars, ngoVars, providerVars, factoryVars, govVars,
                     configVars, callVars, milestoneVars>>

(* transferFrom, safeTransferFrom, approve, setApprovalForAll: pure, revert always *)
(* transferFrom left as ERC721 has it: the owner may transfer *)
transferFromErr_OwnerMayTransfer(caller, from, to, tokenId) ==
    IF caller = from /\ from # Zero /\ to # Zero THEN Ok
    ELSE "ERC721InsufficientApproval"

transferFromErr(caller, from, to, tokenId) ==
    "Soulbound tokens cannot be transferred"

safeTransferFromErr(caller, from, to, tokenId) ==
    "Soulbound tokens cannot be transferred"

approveErr(caller, to, tokenId) ==
    "Soulbound tokens cannot be approved"

setApprovalForAllErr(caller, operator, approved) ==
    "Soulbound tokens cannot be approved"

(* What ERC721 would write were the override not to revert *)
transferFrom(caller, from, to, tokenId) ==
    LET e == transferFromErr(caller, from, to, tokenId)
    IN  /\ IF e = Ok
           THEN /\ owners' = [owners EXCEPT ![tokenId] = to]
                /\ UNCHANGED <<tokenIdCounter, tokenMetadata, redeemerRole, tokenPaused>>
           ELSE UNCHANGED tokenVars
        /\ UNCHANGED <<timeVars, ngoVars, providerVars, factoryVars, govVars,
                     configVars, callVars, milestoneVars>>

safeTransferFrom(caller, from, to, tokenId) ==
    LET e == safeTransferFromErr(caller, from, to, tokenId)
    IN  /\ IF e = Ok
           THEN /\ owners' = [owners EXCEPT ![tokenId] = to]
                /\ UNCHANGED <<tokenIdCounter, tokenMetadata, redeemerRole, tokenPaused>>
           ELSE UNCHANGED tokenVars
        /\ UNCHANGED <<timeVars, ngoVars, providerVars, factoryVars, govVars,
                     configVars, callVars, milestoneVars>>

approve(caller, to, tokenId) ==
    /\ approveErr(caller, to, tokenId) # Ok
    /\ UNCHANGED vars

setApprovalForAll(caller, operator, approved) ==
    /\ setApprovalForAllErr(caller, operator, approved) # Ok
    /\ UNCHANGED vars

tokenPauseErr(caller) ==
    IF caller \notin TokenAdmins THEN Unauthorized
    ELSE IF tokenPaused THEN EnforcedPause
    ELSE Ok

tokenPause(caller) ==
    LET e == tokenPauseErr(caller)
    IN  /\ tokenPaused' = IF e = Ok THEN TRUE ELSE tokenPaused
        /\ UNCHANGED <<tokenIdCounter, tokenMetadata, owners, redeemerRole>>
        /\ UNCHANGED <<timeVars, ngoVars, providerVars, factoryVars, govVars,
                     configVars, callVars, milestoneVars>>

tokenUnpauseErr(caller) ==
    IF caller \notin TokenAdmins THEN Unauthorized
    ELSE IF ~tokenPaused THEN "ExpectedPause"
    ELSE Ok

tokenUnpause(caller) ==
    LET e == tokenUnpauseErr(caller)
    IN  /\ tokenPaused' = IF e = Ok THEN FALSE ELSE tokenPaused
        /\ UNCHANGED <<tokenIdCounter, tokenMetadata, owners, redeemerRole>>
        /\ UNCHANGED <<timeVars, ngoVars, providerVars, factoryVars, govVars,
                     configVars, callVars, milestoneVars>>

(* scripts/grantRedeemer.js: the token's admin grants REDEEMER_ROLE to an address *)
grantRedeemerErr(caller) ==
    IF caller \notin TokenAdmins THEN Unauthorized ELSE Ok

grantRedeemer(caller, account) ==
    LET e == grantRedeemerErr(caller)
    IN  /\ redeemerRole' = IF e = Ok THEN redeemerRole \cup {account} ELSE redeemerRole
        /\ UNCHANGED <<tokenIdCounter, tokenMetadata, owners, tokenPaused>>
        /\ UNCHANGED <<timeVars, ngoVars, providerVars, factoryVars, govVars,
                     configVars, callVars, milestoneVars>>

----------------------------------------------------------------------------
(* CampaignFactory *)

InitialPlatformFee == 250
MaxPlatformFee == 1000

(* createCampaign asking only that the caller be registered *)
createCampaignErr_AnyRegistered(caller, targetAmount, duration) ==
    IF factoryPaused THEN EnforcedPause
    ELSE IF addressToNgoId[caller] = 0 THEN "Only verified NGOs can create campaigns"
    ELSE IF ~(targetAmount > 0) THEN "Target amount must be greater than 0"
    ELSE IF ~(duration > 0) THEN "Duration must be greater than 0"
    ELSE Ok

createCampaignErr(caller, targetAmount, duration) ==
    IF factoryPaused THEN EnforcedPause
    ELSE IF ~isNGOVerified(caller) THEN "Only verified NGOs can create campaigns"
    ELSE IF ~(targetAmount > 0) THEN "Target amount must be greater than 0"
    ELSE IF ~(duration > 0) THEN "Duration must be greater than 0"
    ELSE Ok

createdCampaign(caller, targetAmount, duration) ==
    [campaignId |-> campaignIdCounter + 1, ngoAddress |-> caller,
     targetAmount |-> targetAmount, raisedAmount |-> 0,
     endDate |-> now + duration, status |-> "Active",
     totalDonors |-> 0, totalBeneficiaries |-> 0, hasMilestones |-> FALSE]

createCampaign(caller, targetAmount, duration) ==
    LET e == createCampaignErr(caller, targetAmount, duration)
    IN  /\ campaignIdCounter < MaxCampaigns \/ e # Ok
        /\ IF e = Ok
           THEN /\ campaignIdCounter' = campaignIdCounter + 1
                /\ campaigns' = [campaigns EXCEPT ![campaignIdCounter + 1] =
                                   createdCampaign(caller, targetAmount, duration)]
                /\ UNCHANGED <<campaignDonors, campaignDonations, campaignFunds,
                               factoryPaused, balance, released>>
           ELSE UNCHANGED factoryVars
        /\ UNCHANGED <<timeVars, ngoVars, providerVars, tokenVars, govVars,
                     configVars, callVars, milestoneVars>>

(* donate without the reentrancy guard *)
donateErr_NoGuard(caller, campaignId, value) ==
    IF factoryPaused THEN EnforcedPause
    ELSE IF campaigns[campaignId].campaignId = 0 THEN "Campaign does not exist"
    ELSE IF campaigns[campaignId].status # "Active" THEN "Campaign is not active"
    ELSE IF ~(now <= campaigns[campaignId].endDate) THEN "Campaign has ended"
    ELSE IF ~(value > 0) THEN "Donation amount must be greater than 0"
    ELSE Ok

donateErr(caller, campaignId, value) ==
    IF entered THEN ReentrantCall
    ELSE IF factoryPaused THEN EnforcedPause
    ELSE IF campaigns[campaignId].campaignId = 0 THEN "Campaign does not exist"
    ELSE IF campaigns[campaignId].status # "Active" THEN "Campaign is not active"
    ELSE IF ~(now <= campaigns[campaignId].endDate) THEN "Campaign has ended"
    ELSE IF ~(value > 0) THEN "Donation amount must be greater than 0"
    ELSE Ok

(* donate completing the campaign only above the target *)
donatedCampaign_StrictTarget(caller, campaignId, value) ==
    LET campaign == campaigns[campaignId]
        raised == campaign.raisedAmount + value
    IN  [campaign EXCEPT
            !.totalDonors = IF campaignDonations[campaignId][caller] = 0
                            THEN @ + 1 ELSE @,
            !.raisedAmount = raised,
            !.status = IF raised > campaign.targetAmount THEN "Completed" ELSE @]

(* The campaign record after an accepted donation, auto-completion included *)
donatedCampaign(caller, campaignId, value) ==
    LET campaign == campaigns[campaignId]
        raised == campaign.raisedAmount + value
    IN  [campaign EXCEPT
            !.totalDonors = IF campaignDonations[campaignId][caller] = 0
                            THEN @ + 1 ELSE @,
            !.raisedAmount = raised,
            !.status = IF raised >= campaign.targetAmount THEN "Completed" ELSE @]

(* donate listing the donor on every donation *)
donorsAfter_AlwaysAppend(caller, campaignId) ==
    Append(campaignDonors[campaignId], caller)

donorsAfter(caller, campaignId) ==
    IF campaignDonations[campaignId][caller] = 0
    THEN Append(campaignDonors[campaignId], caller)
    ELSE campaignDonors[campaignId]

donate(caller, campaignId, value) ==
    LET e == donateErr(caller, campaignId, value)
    IN  /\ IF e = Ok
           THEN /\ campaignDonors' = [campaignDonors EXCEPT ![campaignId] =
                                        donorsAfter(caller, campaignId)]
                /\ campaignDonations' =
                       [campaignDonations EXCEPT ![campaignId][caller] = @ + value]
                /\ campaigns' = [campaigns EXCEPT ![campaignId] =
                                   donatedCampaign(caller, campaignId, value)]
                /\ campaignFunds' = [campaignFunds EXCEPT ![campaignId] = @ + value]
                /\ balance' = balance + value
                /\ UNCHANGED <<campaignIdCounter, factoryPaused, released>>
           ELSE UNCHANGED factoryVars
        /\ UNCHANGED <<timeVars, ngoVars, providerVars, tokenVars, govVars,
                     configVars, callVars, milestoneVars>>

(* issueBeneficiaryToken asking for strictly more funds than the amount *)
issueBeneficiaryTokenErr_StrictFunds(caller, campaignId, beneficiary, entitledAmount, validityPeriod) ==
    IF entered THEN ReentrantCall
    ELSE IF campaigns[campaignId].campaignId = 0 THEN "Campaign does not exist"
    ELSE IF campaigns[campaignId].ngoAddress # caller
    THEN "Only campaign creator can issue tokens"
    ELSE IF campaigns[campaignId].status # "Active" THEN "Campaign must be active"
    ELSE IF ~(campaignFunds[campaignId] > entitledAmount)
    THEN "Insufficient campaign funds"
    ELSE IF ~(entitledAmount > 0) THEN "Entitled amount must be greater than 0"
    ELSE IF ~(validityPeriod > 0) THEN "Validity period must be greater than 0"
    ELSE mintTokenErr(Factory, beneficiary, entitledAmount, validityPeriod)

(* issueBeneficiaryToken not looking at the outcome of the delegated mint *)
issueBeneficiaryTokenErr_IgnoreMint(caller, campaignId, beneficiary, entitledAmount, validityPeriod) ==
    IF entered THEN ReentrantCall
    ELSE IF campaigns[campaignId].campaignId = 0 THEN "Campaign does not exist"
    ELSE IF campaigns[campaignId].ngoAddress # caller
    THEN "Only campaign creator can issue tokens"
    ELSE IF campaigns[campaignId].status # "Active" THEN "Campaign must be active"
    ELSE IF ~(campaignFunds[campaignId] >= entitledAmount)
    THEN "Insufficient campaign funds"
    ELSE IF ~(entitledAmount > 0) THEN "Entitled amount must be greater than 0"
    ELSE IF ~(validityPeriod > 0) THEN "Validity period must be greater than 0"
    ELSE Ok

issueBeneficiaryTokenErr(caller, campaignId, beneficiary, entitledAmount, validityPeriod) ==
    IF entered THEN ReentrantCall
    ELSE IF campaigns[campaignId].campaignId = 0 THEN "Campaign does not exist"
    ELSE IF campaigns[campaignId].ngoAddress # caller
    THEN "Only campaign creator can issue tokens"
    ELSE IF campaigns[campaignId].status # "Active" THEN "Campaign must be active"
    ELSE IF ~(campaignFunds[campaignId] >= entitledAmount)
    THEN "Insufficient campaign funds"
    ELSE IF ~(entitledAmount > 0) THEN "Entitled amount must be greater than 0"
    ELSE IF ~(validityPeriod > 0) THEN "Validity period must be greater than 0"
    ELSE mintTokenErr(Factory, beneficiary, entitledAmount, validityPeriod)

(* Funds left unreserved once a token of entitledAmount has been issued *)
fundsAfterIssue(campaignId, entitledAmount) ==
    campaignFunds[campaignId] - entitledAmount

issueBeneficiaryToken(caller, campaignId, beneficiary, entitledAmount, validityPeriod) ==
    LET e == issueBeneficiaryTokenErr(caller, campaignId, beneficiary,
                                      entitledAmount, validityPeriod)
    IN  /\ tokenIdCounter < MaxTokens \/ e # Ok
        /\ IF e = Ok
           THEN /\ mintEffect(beneficiary, campaignId, entitledAmount, validityPeriod)
                /\ campaigns' = [campaigns EXCEPT
                                   ![campaignId].totalBeneficiaries = @ + 1]
                /\ campaignFunds' = [campaignFunds EXCEPT ![campaignId] =
                                       fundsAfterIssue(campaignId, entitledAmount)]
                /\ UNCHANGED <<campaignIdCounter, campaignDonors, campaignDonations,
                               factoryPaused, balance, released>>
           ELSE UNCHANGED <<tokenVars, factoryVars>>
        /\ UNCHANGED <<timeVars, ngoVars, providerVars, govVars,
                     configVars, callVars, milestoneVars>>

fee(amount) == (amount * platformFeePercentage) \div BasisPoints

netAmount(amount) == amount - fee(amount)

(* The modifiers and requires of releaseFunds, before any value moves *)
releaseFundsRequireErr(caller, campaignId, recipient, amount) ==
    IF caller \notin FactoryAdmins THEN Unauthorized
    ELSE IF entered THEN ReentrantCall
    ELSE IF campaigns[campaignId].campaignId = 0 THEN "Campaign does not exist"
    ELSE IF recipient = Zero THEN "Invalid recipient"
    ELSE IF ~(amount > 0) THEN "Amount must be greater than 0"
    ELSE Ok

(* The two value transfers fail when the factory does not hold the value *)
releaseFundsErr(caller, campaignId, recipient, amount) ==
    LET e == releaseFundsRequireErr(caller, campaignId, recipient, amount)
    IN  IF e # Ok THEN e
        ELSE IF balance < fee(amount) THEN "Fee transfer failed"
        ELSE IF balance - fee(amount) < netAmount(amount) THEN "Fund transfer failed"
        ELSE Ok

(* What each address has been paid by the factory after value goes to `to` *)
paid(rcv, to, value) == [rcv EXCEPT ![to] = @ + value]

(* releaseFunds writes no storage: the factory's balance goes down by the  *)
(* fee and the net amount, and FundsReleased(campaignId, ...) is emitted;  *)
(* released[campaignId] is the total paid out under that campaign id.      *)
(* This is the call as one step, both receivers accepting the value.       *)
releaseFunds(caller, campaignId, recipient, amount) ==
    LET e == releaseFundsErr(caller, campaignId, recipient, amount)
    IN  /\ IF e = Ok
           THEN /\ balance' = balance - fee(amount) - netAmount(amount)
                /\ released' = [released EXCEPT ![campaignId] =
                                   @ + fee(amount) + netAmount(amount)]
                /\ received' = paid(paid(received, feeCollector, fee(amount)),
                                    recipient, netAmount(amount))
                /\ UNCHANGED <<campaignIdCounter, campaigns, campaignDonors,
                               campaignDonations, campaignFunds, factoryPaused>>
           ELSE UNCHANGED <<factoryVars, received>>
        /\ UNCHANGED <<timeVars, ngoVars, providerVars, tokenVars, govVars,
                       configVars, entered, frame, milestoneVars>>

(* The same call step by step, control passing to each receiver in turn.   *)
(* Entering takes the guard and computes fee and netAmount; the frame      *)
(* keeps the state a revert of the call restores.                          *)
releaseFundsEnter(caller, campaignId, recipient, amount) ==
    LET e == releaseFundsRequireErr(caller, campaignId, recipient, amount)
    IN  /\ IF e = Ok
           THEN /\ entered' = TRUE
                /\ frame' = [campaignId |-> campaignId, recipient |-> recipient,
                             amount |-> amount, fee |-> fee(amount),
                             netAmount |-> netAmount(amount), stage |-> "fee",
                             balance |-> balance, received |-> received]
           ELSE UNCHANGED <<entered, frame>>
        /\ UNCHANGED <<timeVars, ngoVars, providerVars, tokenVars, factoryVars,
                       govVars, configVars, received, milestoneVars>>

(* A failed require after the call entered undoes the whole call *)
releaseFundsRevert ==
    /\ balance' = frame.balance
    /\ received' = frame.received
    /\ entered' = FALSE
    /\ frame' = NoFrame
    /\ UNCHANGED released

(* payable(feeCollector).call{value: fee}("") and its require *)
releaseFundsFeeTransfer(accepts) ==
    /\ frame.stage = "fee"
    /\ IF accepts /\ balance >= frame.fee
       THEN /\ balance' = balance - frame.fee
            /\ received' = paid(received, feeCollector, frame.fee)
            /\ frame' = [frame EXCEPT !.stage = "net"]
            /\ UNCHANGED <<entered, released>>
       ELSE releaseFundsRevert
    /\ UNCHANGED <<campaignIdCounter, campaigns, campaignDonors, campaignDonations,
                   campaignFunds, factoryPaused>>
    /\ UNCHANGED <<timeVars, ngoVars, providerVars, tokenVars, govVars, configVars, milestoneVars>>

(* recipient.call{value: netAmount}("") and its require; the call returns *)
releaseFundsNetTransfer(accepts) ==
    /\ frame.stage = "net"
    /\ IF accepts /\ balance >= frame.netAmount
       THEN /\ balance' = balance - frame.netAmount
            /\ received' = paid(received, frame.recipient, frame.netAmount)
            /\ released' = [released EXCEPT ![frame.campaignId] =
                               @ + frame.fee + frame.netAmount]
            /\ entered' = FALSE
            /\ frame' = NoFrame
       ELSE releaseFundsRevert
    /\ UNCHANGED <<campaignIdCounter, campaigns, campaignDonors, campaignDonations,
                   campaignFunds, factoryPaused>>
    /\ UNCHANGED <<timeVars, ngoVars, providerVars, tokenVars, govVars, configVars, milestoneVars>>

(* updatePlatformFee without its bound *)
updatePlatformFeeErr_NoCap(caller, newFeePercentage) ==
    IF caller \notin FactoryAdmins THEN Unauthorized
    ELSE Ok

updatePlatformFeeErr(caller, newFeePercentage) ==
    IF caller \notin FactoryAdmins THEN Unauthorized
    ELSE IF ~(newFeePercentage <= MaxPlatformFee) THEN "Fee cannot exceed 10%"
    ELSE Ok

updatePlatformFee(caller, newFeePercentage) ==
    LET e == updatePlatformFeeErr(caller, newFeePercentage)
    IN  /\ IF e = Ok
           THEN platformFeePercentage' = newFeePercentage
           ELSE UNCHANGED platformFeePercentage
        /\ UNCHANGED <<timeVars, ngoVars, providerVars, tokenVars, factoryVars,
                       govVars, feeCollector, minterRole, callVars, milestoneVars>>

updateFeeCollectorErr(caller, newFeeCollector) ==
    IF caller \notin FactoryAdmins THEN Unauthorized
    ELSE IF newFeeCollector = Zero THEN "Invalid address"
    ELSE Ok

updateFeeCollector(caller, newFeeCollector) ==
    LET e == updateFeeCollectorErr(caller, newFeeCollector)
    IN  /\ IF e = Ok
           THEN feeCollector' = newFeeCollector
           ELSE UNCHANGED feeCollector
        /\ UNCHANGED <<timeVars, ngoVars, providerVars, tokenVars, factoryVars,
                       govVars, platformFeePercentage, minterRole, callVars, milestoneVars>>

addMilestoneErr(caller, campaignId) ==
    IF campaigns[campaignId].campaignId = 0 THEN "Campaign does not exist"
    ELSE IF campaigns[campaignId].ngoAddress # caller
    THEN "Only campaign creator can add milestones"
    ELSE IF campaigns[campaignId].status \notin {"Draft", "Active"}
    THEN "Cannot modify campaign"
    ELSE Ok

addedMilestone(description, targetAmount, deadline) ==
    [description |-> description, targetAmount |-> targetAmount,
     deadline |-> deadline, status |-> "Pending", proofHash |-> "",
     completedAt |-> 0]

addMilestone(caller, campaignId, description, targetAmount, deadline) ==
    LET e == addMilestoneErr(caller, campaignId)
    IN  /\ Len(campaignMilestones[campaignId]) < MaxMilestones \/ e # Ok
        /\ IF e = Ok
           THEN /\ campaignMilestones' = [campaignMilestones EXCEPT ![campaignId] =
                       Append(@, addedMilestone(description, targetAmount, deadline))]
                /\ campaigns' = [campaigns EXCEPT ![campaignId].hasMilestones = TRUE]
                /\ UNCHANGED <<campaignIdCounter, campaignDonors, campaignDonations,
                               campaignFunds, factoryPaused, balance, released>>
           ELSE UNCHANGED <<factoryVars, milestoneVars>>
        /\ UNCHANGED <<timeVars, ngoVars, providerVars, tokenVars, govVars,
                       configVars, callVars>>

(* completeMilestone without its require on the milestone's status *)
completeMilestoneErr_AnyStatus(caller, campaignId, milestoneIndex) ==
    IF campaigns[campaignId].campaignId = 0 THEN "Campaign does not exist"
    ELSE IF campaigns[campaignId].ngoAddress # caller
    THEN "Only campaign creator can complete milestones"
    ELSE IF ~(milestoneIndex < Len(campaignMilestones[campaignId]))
    THEN "Invalid milestone index"
    ELSE Ok

(* The array is indexed from 0, the sequence from 1 *)
completeMilestoneErr(caller, campaignId, milestoneIndex) ==
    IF campaigns[campaignId].campaignId = 0 THEN "Campaign does not exist"
    ELSE IF campaigns[campaignId].ngoAddress # caller
    THEN "Only campaign creator can complete milestones"
    ELSE IF ~(milestoneIndex < Len(campaignMilestones[campaignId]))
    THEN "Invalid milestone index"
    ELSE IF campaignMilestones[campaignId][milestoneIndex + 1].status
                \notin {"Pending", "InProgress"}
    THEN "Milestone cannot be completed"
    ELSE Ok

completeMilestone(caller, campaignId, milestoneIndex, proofHash) ==
    LET e == completeMilestoneErr(caller, campaignId, milestoneIndex)
    IN  /\ IF e = Ok
           THEN campaignMilestones' =
                    [campaignMilestones EXCEPT ![campaignId][milestoneIndex + 1] =
                        [@ EXCEPT !.status = "Completed", !.proofHash = proofHash,
                                  !.completedAt = now]]
           ELSE UNCHANGED milestoneVars
        /\ UNCHANGED <<timeVars, ngoVars, providerVars, tokenVars, factoryVars, govVars,
                       configVars, callVars>>

updateCampaignStatus(campaignId, newStatus) ==
    /\ campaigns' = [campaigns EXCEPT ![campaignId].status = newStatus]
    /\ UNCHANGED <<campaignIdCounter, campaignDonors, campaignDonations,
                   campaignFunds, factoryPaused, balance, released>>

(* pauseCampaign without its require on the status *)
pauseCampaignErr_AnyStatus(caller, campaignId) ==
    IF campaigns[campaignId].campaignId = 0 THEN "Campaign does not exist"
    ELSE IF ~(campaigns[campaignId].ngoAddress = caller \/ caller \in FactoryAdmins)
    THEN "Not authorized"
    ELSE Ok

pauseCampaignErr(caller, campaignId) ==
    IF campaigns[campaignId].campaignId = 0 THEN "Campaign does not exist"
    ELSE IF ~(campaigns[campaignId].ngoAddress = caller \/ caller \in FactoryAdmins)
    THEN "Not authorized"
    ELSE IF campaigns[campaignId].status # "Active" THEN "Campaign is not active"
    ELSE Ok

pauseCampaign(caller, campaignId) ==
    LET e == pauseCampaignErr(caller, campaignId)
    IN  /\ IF e = Ok
           THEN updateCampaignStatus(campaignId, "Paused")
           ELSE UNCHANGED factoryVars
        /\ UNCHANGED <<timeVars, ngoVars, providerVars, tokenVars, govVars,
                     configVars, callVars, milestoneVars>>

resumeCampaignErr(caller, campaignId) ==
    IF campaigns[campaignId].campaignId = 0 THEN "Campaign does not exist"
    ELSE IF ~(campaigns[campaignId].ngoAddress = caller \/ caller \in FactoryAdmins)
    THEN "Not authorized"
    ELSE IF campaigns[campaignId].status # "Paused" THEN "Campaign is not paused"
    ELSE Ok

resumeCampaign(caller, campaignId) ==
    LET e == resumeCampaignErr(caller, campaignId)
    IN  /\ IF e = Ok
           THEN updateCampaignStatus(campaignId, "Active")
           ELSE UNCHANGED factoryVars
        /\ UNCHANGED <<timeVars, ngoVars, providerVars, tokenVars, govVars,
                     configVars, callVars, milestoneVars>>

factoryPauseErr(caller) ==
    IF caller \notin FactoryAdmins THEN Unauthorized
    ELSE IF factoryPaused THEN EnforcedPause
    ELSE Ok

factoryPause(caller) ==
    LET e == factoryPauseErr(caller)
    IN  /\ factoryPaused' = IF e = Ok THEN TRUE ELSE factoryPaused
        /\ UNCHANGED <<campaignIdCounter, campaigns, campaignDonors,
                       campaignDonations, campaignFunds, balance, released>>
        /\ UNCHANGED <<timeVars, ngoVars, providerVars, tokenVars, govVars,
                     configVars, callVars, milestoneVars>>

factoryUnpauseErr(caller) ==
    IF caller \notin FactoryAdmins THEN Unauthorized
    ELSE IF ~factoryPaused THEN "ExpectedPause"
    ELSE Ok

factoryUnpause(caller) ==
    LET e == factoryUnpauseErr(caller)
    IN  /\ factoryPaused' = IF e = Ok THEN FALSE ELSE factoryPaused
        /\ UNCHANGED <<campaignIdCounter, campaigns, campaignDonors,
                       campaignDonations, campaignFunds, balance, released>>
        /\ UNCHANGED <<timeVars, ngoVars, providerVars, tokenVars, govVars,
                     configVars, callVars, milestoneVars>>

----------------------------------------------------------------------------
(* NGOGovernance *)

(* Storage mappings hold the zero value at every key never written *)
proposalAt(proposalId) ==
    IF proposalId \in DOMAIN proposals THEN proposals[proposalId] ELSE NoProposal

verificationProposalOf(ngoId) ==
    IF ngoId \in DOMAIN ngoVerificationProposals
    THEN ngoVerificationProposals[ngoId] ELSE 0

challengesOf(ngoId) ==
    IF ngoId \in DOMAIN ngoChallenges THEN ngoChallenges[ngoId] ELSE <<>>

(* AccessControl.grantRole(ADMIN_ROLE, account) by a holder of             *)
(* DEFAULT_ADMIN_ROLE, which the constructor gives to the deployer; the    *)
(* constructor grants ADMIN_ROLE itself to nobody.                         *)
grantGovernanceAdminErr(caller) ==
    IF caller \notin GovernanceDefaultAdmins THEN Unauthorized ELSE Ok

grantGovernanceAdmin(caller, account) ==
    LET e == grantGovernanceAdminErr(caller)
    IN  /\ governanceAdminRole' =
               IF e = Ok THEN governanceAdminRole \cup {account} ELSE governanceAdminRole
        /\ UNCHANGED <<userReputations, proposalIdCounter, proposals,
                       ngoVerificationProposals, ngoChallenges>>
        /\ UNCHANGED <<timeVars, ngoVars, providerVars, tokenVars, factoryVars,
                     configVars, callVars, milestoneVars>>

initializeReputationErr(caller, user) ==
    IF caller \notin governanceAdminRole THEN Unauthorized
    ELSE IF userReputations[user].score # 0 THEN "Reputation already initialized"
    ELSE Ok

initializeReputation(caller, user) ==
    LET e == initializeReputationErr(caller, user)
    IN  /\ userReputations' =
               IF e = Ok
               THEN [userReputations EXCEPT ![user] =
                        [score |-> InitialScore, totalProposals |-> 0,
                         successfulVerifications |-> 0, successfulChallenges |-> 0,
                         lastActivity |-> now]]
               ELSE userReputations
        /\ UNCHANGED <<governanceAdminRole, proposalIdCounter, proposals,
                       ngoVerificationProposals, ngoChallenges>>
        /\ UNCHANGED <<timeVars, ngoVars, providerVars, tokenVars, factoryVars,
                     configVars, callVars, milestoneVars>>

(* _calculateVotingPower returning the score itself *)
calculateVotingPower_Unscaled(voter) ==
    userReputations[voter].score

calculateVotingPower(voter) ==
    (userReputations[voter].score * VOTE_WEIGHT_BASE) \div ScoreScale

(* _castVote on the proposal record p: its requires, then its writes *)
castVoteOnErr(p, voter) ==
    IF ~(now <= p.endTime) THEN "Voting ended"
    ELSE IF p.votes[voter].hasVoted THEN "Already voted"
    ELSE Ok

votedProposal(p, voteType, voter) ==
    LET votingPower == calculateVotingPower(voter)
    IN  [p EXCEPT !.votes[voter] = [hasVoted |-> TRUE, voteType |-> voteType,
                                    votingPower |-> votingPower,
                                    reputationStake |-> REPUTATION_CHANGE_PER_VOTE],
                  !.upvotes = IF voteType = "Upvote" THEN @ + votingPower ELSE @,
                  !.downvotes = IF voteType = "Upvote" THEN @ ELSE @ + votingPower,
                  !.totalVotingPower = @ + votingPower]

(* The record the two creating functions write into the next slot, before  *)
(* the proposer's automatic vote; members they do not assign keep what the *)
(* slot held.                                                              *)
createdProposal(caller, ngoId, proposalType) ==
    [proposalAt(proposalIdCounter + 1) EXCEPT
        !.proposalId = proposalIdCounter + 1,
        !.ngoId = ngoId,
        !.proposalType = proposalType,
        !.proposer = caller,
        !.startTime = now,
        !.endTime = now + VOTING_DURATION]

(* createVerificationProposal without its require on an existing proposal *)
createVerificationProposalErr_NoExistingCheck(caller, ngoId) ==
    IF ~(userReputations[caller].score >= MIN_REPUTATION_TO_VOTE)
    THEN "Insufficient reputation"
    ELSE castVoteOnErr(createdProposal(caller, ngoId, "Verification"), caller)

createVerificationProposalErr(caller, ngoId) ==
    IF verificationProposalOf(ngoId) # 0 THEN "Proposal already exists"
    ELSE IF ~(userReputations[caller].score >= MIN_REPUTATION_TO_VOTE)
    THEN "Insufficient reputation"
    ELSE castVoteOnErr(createdProposal(caller, ngoId, "Verification"), caller)

createVerificationProposal(caller, ngoId) ==
    LET e == createVerificationProposalErr(caller, ngoId)
    IN  /\ IF e = Ok
           THEN /\ proposalIdCounter' = proposalIdCounter + 1
                /\ proposals' = (proposalIdCounter + 1 :>
                       votedProposal(createdProposal(caller, ngoId, "Verification"),
                                     "Upvote", caller)) @@ proposals
                /\ ngoVerificationProposals' =
                       (ngoId :> proposalIdCounter + 1) @@ ngoVerificationProposals
                /\ UNCHANGED <<governanceAdminRole, userReputations, ngoChallenges>>
           ELSE UNCHANGED govVars
        /\ UNCHANGED <<timeVars, ngoVars, providerVars, tokenVars, factoryVars,
                     configVars, callVars, milestoneVars>>

challengeNGOErr(caller, ngoId) ==
    IF ~(userReputations[caller].score >= MIN_REPUTATION_TO_VOTE)
    THEN "Insufficient reputation"
    ELSE castVoteOnErr(createdProposal(caller, ngoId, "Challenge"), caller)

challengeNGO(caller, ngoId) ==
    LET e == challengeNGOErr(caller, ngoId)
    IN  /\ IF e = Ok
           THEN /\ proposalIdCounter' = proposalIdCounter + 1
                /\ proposals' = (proposalIdCounter + 1 :>
                       votedProposal(createdProposal(caller, ngoId, "Challenge"),
                                     "Downvote", caller)) @@ proposals
                /\ ngoChallenges' = (ngoId :>
                       Append(challengesOf(ngoId), proposalIdCounter + 1)) @@ ngoChallenges
                /\ UNCHANGED <<governanceAdminRole, userReputations,
                               ngoVerificationProposals>>
           ELSE UNCHANGED govVars
        /\ UNCHANGED <<timeVars, ngoVars, providerVars, tokenVars, factoryVars,
                     configVars, callVars, milestoneVars>>

(* castVote letting a voter vote again *)
castVoteErr_NoVotedCheck(caller, proposalId) ==
    IF ~(userReputations[caller].score >= MIN_REPUTATION_TO_VOTE)
    THEN "Insufficient reputation"
    ELSE IF ~(now <= proposalAt(proposalId).endTime) THEN "Voting ended"
    ELSE Ok

castVoteErr(caller, proposalId) ==
    IF ~(userReputations[caller].score >= MIN_REPUTATION_TO_VOTE)
    THEN "Insufficient reputation"
    ELSE castVoteOnErr(proposalAt(proposalId), caller)

castVote(caller, proposalId, voteType) ==
    LET e == castVoteErr(caller, proposalId)
    IN  /\ IF e = Ok
           THEN /\ proposals' = (proposalId :>
                       votedProposal(proposalAt(proposalId), voteType, caller)) @@ proposals
                /\ UNCHANGED <<governanceAdminRole, userReputations, proposalIdCounter,
                               ngoVerificationProposals, ngoChallenges>>
           ELSE UNCHANGED govVars
        /\ UNCHANGED <<timeVars, ngoVars, providerVars, tokenVars, factoryVars,
                     configVars, callVars, milestoneVars>>

executeProposalErr(proposalId) ==
    IF ~(now > proposalAt(proposalId).endTime) THEN "Voting not ended"
    ELSE IF proposalAt(proposalId).executed THEN "Already executed"
    ELSE Ok

(* executeProposal counting a tie as passed *)
passed_TieWins(proposalId) ==
    proposalAt(proposalId).upvotes >= proposalAt(proposalId).downvotes

passed(proposalId) ==
    proposalAt(proposalId).upvotes > proposalAt(proposalId).downvotes

(* _updateReputationForSuccess counting the proposal as well *)
updateReputationForSuccess_CountsProposal(rep, isVerification) ==
    [rep EXCEPT !.score = @ + REPUTATION_CHANGE_PER_VOTE * 2,
                !.totalProposals = @ + 1,
                !.successfulVerifications = @ + (IF isVerification THEN 1 ELSE 0),
                !.successfulChallenges = @ + (IF isVerification THEN 0 ELSE 1)]

(* _updateReputationForSuccess, applied to the proposer's record *)
updateReputationForSuccess(rep, isVerification) ==
    [rep EXCEPT !.score = @ + REPUTATION_CHANGE_PER_VOTE * 2,
                !.successfulVerifications = @ + (IF isVerification THEN 1 ELSE 0),
                !.successfulChallenges = @ + (IF isVerification THEN 0 ELSE 1)]

(* _updateReputationForFailure, applied to the proposer's record *)
updateReputationForFailure(rep) ==
    IF rep.score > REPUTATION_CHANGE_PER_VOTE
    THEN [rep EXCEPT !.score = @ - REPUTATION_CHANGE_PER_VOTE]
    ELSE rep

executeProposal(caller, proposalId) ==
    LET e == executeProposalErr(proposalId)
        proposer == proposalAt(proposalId).proposer
    IN  /\ IF e = Ok
           THEN /\ proposals' = (proposalId :>
                       [proposalAt(proposalId) EXCEPT !.executed = TRUE]) @@ proposals
                /\ userReputations' = [userReputations EXCEPT ![proposer] =
                       IF passed(proposalId)
                       THEN updateReputationForSuccess(
                                @, proposalAt(proposalId).proposalType = "Verification")
                       ELSE updateReputationForFailure(@)]
                /\ UNCHANGED <<governanceAdminRole, proposalIdCounter,
                               ngoVerificationProposals, ngoChallenges>>
           ELSE UNCHANGED govVars
        /\ UNCHANGED <<timeVars, ngoVars, providerVars, tokenVars, factoryVars,
                     configVars, callVars, milestoneVars>>

----------------------------------------------------------------------------
(* Time *)

Tick ==
    /\ now <= MaxTime
    /\ now' = now + 1
    /\ UNCHANGED <<ngoVars, providerVars, tokenVars, factoryVars, govVars,
                     configVars, callVars, milestoneVars>>

(* A jump of the block timestamp to the instant t *)
Warp(t) ==
    /\ t > now
    /\ now' = t
    /\ UNCHANGED <<ngoVars, providerVars, tokenVars, factoryVars, govVars,
                     configVars, callVars, milestoneVars>>

----------------------------------------------------------------------------
Init ==
    /\ now = 1
    /\ ngoIdCounter = 0
    /\ addressToNgoId = [a \in Addr |-> 0]
    /\ ngos = [i \in NgoIds |-> NoNGO]
    /\ adminVerificationFrozen = FALSE
    /\ addressToProviderId = [a \in Addr |-> 0]
    /\ providers = [i \in 1..Cardinality(ProviderAddrs) |-> NoProvider]
    /\ tokenIdCounter = 0
    /\ tokenMetadata = [t \in TokenIds |-> NoToken]
    /\ owners = [t \in TokenIds |-> Zero]
    /\ redeemerRole = {SPRegistry}
    /\ tokenPaused = FALSE
    /\ campaignIdCounter = 0
    /\ campaigns = [c \in CampaignIds |-> NoCampaign]
    /\ campaignDonors = [c \in CampaignIds |-> <<>>]
    /\ campaignDonations = [c \in CampaignIds |-> [d \in Addr |-> 0]]
    /\ campaignFunds = [c \in CampaignIds |-> 0]
    /\ factoryPaused = FALSE
    /\ balance = 0
    /\ released = [c \in CampaignIds |-> 0]
    /\ governanceAdminRole = {}
    /\ userReputations = [a \in GovUsers |-> NoReputation]
    /\ proposalIdCounter = 0
    /\ proposals = [p \in {} |-> NoProposal]
    /\ ngoVerificationProposals = [i \in {} |-> 0]
    /\ ngoChallenges = [i \in {} |-> <<>>]
    /\ platformFeePercentage = InitialPlatformFee
    /\ feeCollector = Admin
    /\ minterRole = {Admin, Factory}
    /\ entered = FALSE
    /\ frame = NoFrame
    /\ received = [a \in Addr |-> 0]
    /\ campaignMilestones = [c \in CampaignIds |-> <<>>]

(* Callers: for a role-gated call one holder of the role and one identity   *)
(* without it; for an owner-gated call the owner, an admin and a stranger.  *)
RoleCallers == {Admin, "user"}
OwnerCallers == {Admin, "ngoA", "user"}

RegisterNGOStep ==
    \E caller \in OwnerCallers, a \in NgoAddrs \cup {Zero}, n \in Names, r \in Names :
        registerNGO(caller, a, n, r)
VerifyNGOStep == \E caller \in RoleCallers, i \in NgoIds : verifyNGO(caller, i)
RejectNGOStep == \E caller \in RoleCallers, i \in NgoIds : rejectNGO(caller, i)
SuspendNGOStep == \E caller \in RoleCallers, i \in NgoIds : suspendNGO(caller, i)
BlacklistNGOStep == \E caller \in RoleCallers, i \in NgoIds : blacklistNGO(caller, i)
FreezeStep == \E caller \in RoleCallers : freezeAdminVerification(caller)

Scores == {0, MaxScore, MaxScore + 1}
Statistics == {0, 1}

UpdateReputationStep ==
    \E caller \in RoleCallers, i \in NgoIds, newScore \in Scores :
        updateReputation(caller, i, newScore)

UpdateStatisticsStep ==
    \E caller \in RoleCallers, i \in NgoIds, c \in Statistics, f \in Statistics, b \in Statistics :
        updateStatistics(caller, i, c, f, b)

RegisterProviderStep ==
    \E caller \in RoleCallers, a \in ProviderAddrs \cup {Zero} : registerProvider(caller, a)
VerifyProviderStep ==
    \E caller \in RoleCallers, i \in DOMAIN providers : verifyProvider(caller, i)

MintStep ==
    \E caller \in RoleCallers, b \in Beneficiaries \cup {Zero}, c \in CampaignIds,
       a \in {0, 1}, v \in Validities : mintToken(caller, b, c, a, v)
RedeemStep ==
    \E caller \in ProviderAddrs \cup {"user"}, t \in TokenIds, p \in Proofs :
        redeemToken(caller, t, p)
RevokeStep == \E caller \in RoleCallers, t \in TokenIds : revokeToken(caller, t)
MarkExpiredStep == \E caller \in {"user"}, t \in TokenIds : markExpired(caller, t)
TransferStep ==
    \E caller \in RoleCallers \cup Beneficiaries, to \in {Admin, "prov"}, t \in TokenIds :
        \/ transferFrom(caller, owners[t], to, t)
        \/ safeTransferFrom(caller, owners[t], to, t)
ApproveStep ==
    \E caller \in RoleCallers \cup Beneficiaries, to \in {Admin, "prov"} :
        \/ \E t \in TokenIds : approve(caller, to, t)
        \/ \E b \in BOOLEAN : setApprovalForAll(caller, to, b)
TokenPauseStep == \E caller \in RoleCallers : tokenPause(caller) \/ tokenUnpause(caller)
GrantRedeemerStep ==
    \E caller \in RoleCallers, a \in ProviderAddrs : grantRedeemer(caller, a)

CreateCampaignStep ==
    \E caller \in OwnerCallers, t \in 0..MaxAmount, d \in Durations :
        createCampaign(caller, t, d)
DonateStep ==
    \E caller \in DonorAddrs, c \in CampaignIds, v \in 0..MaxAmount : donate(caller, c, v)
IssueStep ==
    \E caller \in OwnerCallers, c \in CampaignIds, b \in Beneficiaries \cup {Zero},
       a \in 0..MaxAmount, v \in Validities : issueBeneficiaryToken(caller, c, b, a, v)
ReleaseStep ==
    \E caller \in RoleCallers, c \in CampaignIds, r \in ProviderAddrs \cup {Zero},
       a \in 0..MaxAmount : releaseFunds(caller, c, r, a)
PauseCampaignStep ==
    \E caller \in OwnerCallers, c \in CampaignIds : pauseCampaign(caller, c)
ResumeCampaignStep ==
    \E caller \in OwnerCallers, c \in CampaignIds : resumeCampaign(caller, c)
FactoryPauseStep ==
    \E caller \in RoleCallers : factoryPause(caller) \/ factoryUnpause(caller)

(* Governance callers: the deployer, an identity that gets a reputation,  *)
(* and one that never does.  Timestamps are taken at both ends of a voting *)
(* window and one second past each.                                        *)
GovVoters == {Admin, "user"}
GovCallers == {Admin, "user", "prov"}
GovNgoIds == NgoIds
GovProposalIds == 1..MaxProposals
VoteTypes == {"Upvote", "Downvote"}
GovInstants == {1 + k * VOTING_DURATION + j : k \in 0..MaxWarps, j \in 0..1}

WarpStep == \E t \in GovInstants : Warp(t)
GrantGovernanceAdminStep ==
    \E caller \in RoleCallers : grantGovernanceAdmin(caller, Admin)
InitializeReputationStep ==
    \E caller \in RoleCallers, u \in GovVoters : initializeReputation(caller, u)
CreateVerificationProposalStep ==
    \E caller \in GovCallers, i \in GovNgoIds :
        /\ proposalIdCounter < MaxProposals
        /\ createVerificationProposal(caller, i)
ChallengeNGOStep ==
    \E caller \in GovCallers, i \in GovNgoIds :
        /\ proposalIdCounter < MaxProposals
        /\ challengeNGO(caller, i)
CastVoteStep ==
    \E caller \in GovCallers, p \in GovProposalIds, v \in VoteTypes : castVote(caller, p, v)
ExecuteProposalStep ==
    \E caller \in {"prov"}, p \in GovProposalIds : executeProposal(caller, p)

(* One proposer's long run: "user" files proposals of one kind, nothing is *)
(* filed once an execution has happened, and proposals are executed oldest *)
(* first after the voting window.                                          *)
RunInitializeStep == initializeReputation(Admin, "user")
RunWarpStep ==
    /\ now <= MaxWarps * VOTING_DURATION
    /\ Warp(now + VOTING_DURATION + 1)
RunFileStep ==
    /\ proposalIdCounter < MaxRun
    /\ \A p \in ProposalIds : ~proposalAt(p).executed
    /\ \/ /\ proposalIdCounter = 0 \/ proposalAt(1).proposalType = "Verification"
          /\ createVerificationProposal("user", proposalIdCounter + 1)
       \/ /\ proposalIdCounter = 0 \/ proposalAt(1).proposalType = "Challenge"
          /\ challengeNGO("user", 1)
RunExecuteStep ==
    \E p \in ProposalIds :
        /\ p <= proposalIdCounter
        /\ \A q \in 1..(p - 1) : proposalAt(q).executed
        /\ ~proposalAt(p).executed
        /\ executeProposal("prov", p)

(* Registry calls by the deployer, the organization itself and a stranger, *)
(* each with or without a governance reputation.                           *)
RegistryGovCallers == {Admin, "ngoA", "user"}

InitializeRegistryCallerStep ==
    \E caller \in RoleCallers, u \in RegistryGovCallers : initializeReputation(caller, u)
VerifyNGOThroughGovernanceStep ==
    \E caller \in RegistryGovCallers, i \in NgoIds : verifyNGOThroughGovernance(caller, i)
SuspendNGOThroughGovernanceStep ==
    \E caller \in RegistryGovCallers, i \in NgoIds : suspendNGOThroughGovernance(caller, i)

(* The escrow ledger: a verified organization's campaigns, the donations   *)
(* they hold, and the tokens issued, revoked and redeemed against them.    *)
Next ==
    \/ Tick
    \/ RegisterNGOStep
    \/ VerifyNGOStep
    \/ CreateCampaignStep
    \/ DonateStep
    \/ IssueStep
    \/ ReleaseStep
    \/ PauseCampaignStep
    \/ ResumeCampaignStep
    \/ RevokeStep
    \/ GrantRedeemerStep
    \/ RedeemStep

Spec == Init /\ [][Next]_vars

(* Campaign creation and donations under every verification outcome of    *)
(* the organization; no operation left out writes a campaign's target,     *)
(* raised amount, window, status or donor records.                         *)
CampaignNext ==
    \/ Tick
    \/ RegisterNGOStep
    \/ VerifyNGOStep
    \/ RejectNGOStep
    \/ SuspendNGOStep
    \/ BlacklistNGOStep
    \/ CreateCampaignStep
    \/ DonateStep
    \/ PauseCampaignStep
    \/ ResumeCampaignStep
    \/ FactoryPauseStep

SpecCampaign == Init /\ [][CampaignNext]_vars

(* The entitlement token alone, with the provider registry beside it: any  *)
(* holder of the Minter capability mints, for any campaign id.             *)
TokenNext ==
    \/ Tick
    \/ RegisterProviderStep
    \/ VerifyProviderStep
    \/ MintStep
    \/ RedeemStep
    \/ RevokeStep
    \/ MarkExpiredStep
    \/ TransferStep
    \/ ApproveStep
    \/ TokenPauseStep
    \/ GrantRedeemerStep

SpecToken == Init /\ [][TokenNext]_vars

(* Proposals, votes and executions of NGOGovernance with every caller and  *)
(* every order of calls.                                                   *)
GovernanceNext ==
    \/ WarpStep
    \/ GrantGovernanceAdminStep
    \/ InitializeReputationStep
    \/ CreateVerificationProposalStep
    \/ ChallengeNGOStep
    \/ CastVoteStep
    \/ ExecuteProposalStep

SpecGovernance == Init /\ [][GovernanceNext]_vars

(* The reputation of one proposer over a long run of its own proposals.    *)
ReputationNext ==
    \/ GrantGovernanceAdminStep
    \/ RunInitializeStep
    \/ RunFileStep
    \/ RunWarpStep
    \/ RunExecuteStep

SpecReputation == Init /\ [][ReputationNext]_vars

(* The registry's verification and suspension paths, by role and by        *)
(* governance reputation, before and after the freeze.                     *)
RegistryNext ==
    \/ Tick
    \/ RegisterNGOStep
    \/ VerifyNGOStep
    \/ RejectNGOStep
    \/ SuspendNGOStep
    \/ FreezeStep
    \/ GrantGovernanceAdminStep
    \/ InitializeRegistryCallerStep
    \/ VerifyNGOThroughGovernanceStep
    \/ SuspendNGOThroughGovernanceStep
    \/ BlacklistNGOStep
    \/ UpdateReputationStep
    \/ UpdateStatisticsStep

SpecRegistry == Init /\ [][RegistryNext]_vars

(* Issuance against the token contract's own switches: its pause flag and  *)
(* the ledger's MINTER_ROLE                                                *)
MinterAccounts == {Factory}

GrantMinterStep ==
    \E caller \in RoleCallers, a \in MinterAccounts : grantMinter(caller, a)
RevokeMinterStep ==
    \E caller \in RoleCallers, a \in MinterAccounts : revokeMinter(caller, a)

IssueNext ==
    \/ Tick
    \/ RegisterNGOStep
    \/ VerifyNGOStep
    \/ CreateCampaignStep
    \/ DonateStep
    \/ IssueStep
    \/ TokenPauseStep
    \/ GrantMinterStep
    \/ RevokeMinterStep

SpecIssue == Init /\ [][IssueNext]_vars

(* Proposals about an organization that the registry knows *)
ExecuteNext ==
    \/ RegisterNGOStep
    \/ VerifyNGOStep
    \/ WarpStep
    \/ GrantGovernanceAdminStep
    \/ InitializeReputationStep
    \/ CreateVerificationProposalStep
    \/ ChallengeNGOStep
    \/ CastVoteStep
    \/ ExecuteProposalStep

SpecExecute == Init /\ [][ExecuteNext]_vars

(* Milestones of a campaign through the campaign's life *)
MilestoneIndexes == 0..MaxMilestones

AddMilestoneStep ==
    \E caller \in OwnerCallers, c \in CampaignIds, d \in {"n"}, t \in {1}, dl \in {MaxTime} :
        addMilestone(caller, c, d, t, dl)
CompleteMilestoneStep ==
    \E caller \in OwnerCallers, c \in CampaignIds, k \in MilestoneIndexes, p \in Proofs :
        completeMilestone(caller, c, k, p)

MilestoneNext ==
    \/ Tick
    \/ RegisterNGOStep
    \/ VerifyNGOStep
    \/ CreateCampaignStep
    \/ DonateStep
    \/ PauseCampaignStep
    \/ ResumeCampaignStep
    \/ AddMilestoneStep
    \/ CompleteMilestoneStep

SpecMilestone == Init /\ [][MilestoneNext]_vars

(* releaseFunds step by step: while a call is in progress the only other   *)
(* steps are the calls its two receivers can make back into the ledger     *)
Idle == ~entered

ReleaseTargets == {80}
ReleaseDonations == {0, 40}
ReleaseAmounts == {0, 10, 40}
FeePercentages == {InitialPlatformFee, MaxPlatformFee, MaxPlatformFee + 1}
FeeCollectors == {Admin, "prov", Zero}

ReleaseSetupStep ==
    /\ Idle
    /\ \/ RegisterNGOStep
       \/ VerifyNGOStep
       \/ \E caller \in OwnerCallers, t \in ReleaseTargets, d \in Durations :
              createCampaign(caller, t, d)
ReleaseDonateStep ==
    \E caller \in DonorAddrs, c \in CampaignIds, v \in ReleaseDonations :
        donate(caller, c, v)
ReleaseEnterStep ==
    \E caller \in RoleCallers, c \in CampaignIds, r \in ProviderAddrs \cup {Zero},
       a \in ReleaseAmounts : releaseFundsEnter(caller, c, r, a)
FeeTransferStep == \E accepts \in BOOLEAN : releaseFundsFeeTransfer(accepts)
NetTransferStep == \E accepts \in BOOLEAN : releaseFundsNetTransfer(accepts)
UpdatePlatformFeeStep ==
    /\ Idle
    /\ \E caller \in RoleCallers, f \in FeePercentages : updatePlatformFee(caller, f)
UpdateFeeCollectorStep ==
    /\ Idle
    /\ \E caller \in RoleCallers, a \in FeeCollectors : updateFeeCollector(caller, a)

ReleaseNext ==
    \/ ReleaseSetupStep
    \/ ReleaseDonateStep
    \/ IssueStep
    \/ ReleaseEnterStep
    \/ FeeTransferStep
    \/ NetTransferStep
    \/ UpdatePlatformFeeStep
    \/ UpdateFeeCollectorStep

SpecRelease == Init /\ [][ReleaseNext]_vars
----------------------------------------------------------------------------
(* Derived quantities *)

RECURSIVE SumEntitled(_)
SumEntitled(S) ==
    IF S = {} THEN 0
    ELSE LET t == CHOOSE x \in S : TRUE
         IN  tokenMetadata[t].entitledAmount + SumEntitled(S \ {t})

RECURSIVE SumDonations(_, _)
SumDonations(c, S) ==
    IF S = {} THEN 0
    ELSE LET d == CHOOSE x \in S : TRUE
         IN  campaignDonations[c][d] + SumDonations(c, S \ {d})

TokensOf(c) == {t \in TokenIds : exists(t) /\ tokenMetadata[t].campaignId = c}
Created(c) == campaigns[c].campaignId # 0
Range(q) == {q[i] : i \in DOMAIN q}

----------------------------------------------------------------------------
(* C1: a token is redeemed at most once.  Whoever holds the Redeemer       *)
(* capability, a redeemToken call on a token that is already Redeemed      *)
(* reverts, and no step changes the record of a Redeemed token (status,    *)
(* redeemer, redemption time, proof), so the one successful call is the    *)
(* step that made it Redeemed.                                             *)
C1_RedeemedCallFails ==
    \A t \in TokenIds :
        tokenMetadata[t].status = "Redeemed" =>
            \A caller \in Addr \cup redeemerRole, p \in Proofs :
                redeemTokenErr(caller, t, p) # Ok

C1_RedeemedFrozen ==
    \A t \in TokenIds :
        tokenMetadata[t].status = "Redeemed" => tokenMetadata'[t] = tokenMetadata[t]

C1_ExactlyOnce == []C1_RedeemedCallFails /\ [][C1_RedeemedFrozen]_vars

(* A Redeemed token whose redeemer still holds the capability at a later time *)
C1_Witness ==
    \E t \in TokenIds :
        /\ tokenMetadata[t].status = "Redeemed"
        /\ tokenMetadata[t].redeemedBy \in redeemerRole
        /\ now > tokenMetadata[t].redeemedAt
        /\ now <= tokenMetadata[t].expiryDate
        /\ ~tokenPaused

----------------------------------------------------------------------------
(* C2 (as claimed): for every campaign, campaignFunds equals raisedAmount  *)
(* minus the entitled amounts of the campaign's tokens that are not        *)
(* Revoked.                                                                *)
C2_EscrowEqualsRaisedMinusNonRevoked ==
    \A c \in CampaignIds :
        Created(c) =>
            campaignFunds[c] =
                campaigns[c].raisedAmount
                - SumEntitled({t \in TokensOf(c) : tokenMetadata[t].status # "Revoked"})

----------------------------------------------------------------------------
(* C3 (as claimed): the total paid out by releaseFunds under a campaign id *)
(* never exceeds the entitled amounts of that campaign's Redeemed tokens.  *)
C3_ReleasedWithinRedeemed ==
    \A c \in CampaignIds :
        released[c] <=
            SumEntitled({t \in TokensOf(c) : tokenMetadata[t].status = "Redeemed"})

----------------------------------------------------------------------------
(* C4: the owner of every minted token is the beneficiary recorded at      *)
(* mint, and transferFrom, safeTransferFrom, approve and setApprovalForAll *)
(* revert for every caller and every argument.                             *)
C4_OwnerFixedAtMint ==
    /\ \A t \in TokenIds :
          exists(t) => owners[t] = tokenMetadata[t].beneficiary
    /\ \A caller \in Addr, to \in Addr, t \in TokenIds :
          /\ transferFromErr(caller, owners[t], to, t) # Ok
          /\ safeTransferFromErr(caller, owners[t], to, t) # Ok
          /\ approveErr(caller, to, t) # Ok
    /\ \A caller \in Addr, o \in Addr, b \in BOOLEAN :
          setApprovalForAllErr(caller, o, b) # Ok

(* A token in its holder's hands some time after the mint *)
C4_Witness ==
    \E t \in TokenIds :
        /\ exists(t)
        /\ owners[t] \in Beneficiaries
        /\ now > tokenMetadata[t].issuedAt

----------------------------------------------------------------------------
(* C5 (as claimed): once a campaign is Completed, its owner can still      *)
(* issue a token for any amount from 1 up to campaignFunds.                *)
C5_IssueAfterCompletion ==
    \A c \in CampaignIds :
        (Created(c) /\ campaigns[c].status = "Completed" /\ ~tokenPaused) =>
            \A a \in 1..campaignFunds[c], b \in Beneficiaries :
                issueBeneficiaryTokenErr(campaigns[c].ngoAddress, c, b, a, 1) = Ok

----------------------------------------------------------------------------
(* C7 (as claimed): whoever redeemed a token is a provider that the        *)
(* ServiceProviderRegistry holds as Verified.  (The registry never takes   *)
(* a verification back, so a provider Verified at redemption is Verified   *)
(* in every later state.)                                                  *)
C7_RedeemerIsVerifiedProvider ==
    \A t \in TokenIds :
        tokenMetadata[t].status = "Redeemed" =>
            isProviderVerified(tokenMetadata[t].redeemedBy)

----------------------------------------------------------------------------
(* C6: on an Active campaign the owner's issueBeneficiaryToken (a          *)
(* beneficiary, a validity period above 0, the token contract not paused)  *)
(* goes through for exactly the remaining campaignFunds and reverts with   *)
(* "Insufficient campaign funds" for one unit more; an issue that goes     *)
(* through takes the entitled amount off campaignFunds and counts one      *)
(* beneficiary and one token more, and campaignFunds is never negative.    *)
C6_EscrowBoundary ==
    \A c \in CampaignIds :
        /\ campaignFunds[c] >= 0
        /\ (Created(c) /\ campaigns[c].status = "Active" /\ ~tokenPaused) =>
              \A b \in Beneficiaries, v \in Validities \ {0} :
                  /\ campaignFunds[c] > 0 =>
                        issueBeneficiaryTokenErr(campaigns[c].ngoAddress, c, b,
                                                 campaignFunds[c], v) = Ok
                  /\ issueBeneficiaryTokenErr(campaigns[c].ngoAddress, c, b,
                                              campaignFunds[c] + 1, v)
                        = "Insufficient campaign funds"

C6_IssueStep ==
    \A c \in CampaignIds :
        campaigns'[c].totalBeneficiaries # campaigns[c].totalBeneficiaries =>
            /\ campaigns[c].status = "Active"
            /\ tokenIdCounter' = tokenIdCounter + 1
            /\ campaigns'[c].totalBeneficiaries = campaigns[c].totalBeneficiaries + 1
            /\ tokenMetadata'[tokenIdCounter].campaignId = c
            /\ tokenMetadata'[tokenIdCounter].entitledAmount > 0
            /\ tokenMetadata'[tokenIdCounter].entitledAmount <= campaignFunds[c]
            /\ campaignFunds'[c] =
                  campaignFunds[c] - tokenMetadata'[tokenIdCounter].entitledAmount

C6_IssueAtBoundary == []C6_EscrowBoundary /\ [][C6_IssueStep]_vars

(* An Active campaign whose whole escrow has just gone into a token *)
C6_Witness ==
    \E c \in CampaignIds, t \in TokenIds :
        /\ campaigns[c].status = "Active"
        /\ campaigns[c].raisedAmount > 0
        /\ campaignFunds[c] = 0
        /\ t \in TokensOf(c)
        /\ tokenMetadata[t].entitledAmount = campaigns[c].raisedAmount
        /\ campaigns[c].totalBeneficiaries = 1

----------------------------------------------------------------------------
(* C8: for every campaign raisedAmount is the sum of the per-donor         *)
(* amounts; totalDonors is the number of identities with a recorded        *)
(* amount and the length of the donor list, which lists each of them       *)
(* once.  Every step that changes a campaign's raised amount or donor      *)
(* records is one accepted donation: the campaign was Active, now <=       *)
(* endDate, and one donor's amount and raisedAmount grow by the same       *)
(* value > 0 (nothing lost, nothing counted twice).                        *)
Donors(c) == {d \in Addr : campaignDonations[c][d] > 0}

C8_DonationBooks ==
    \A c \in CampaignIds :
        /\ campaigns[c].raisedAmount = SumDonations(c, Addr)
        /\ campaigns[c].totalDonors = Cardinality(Donors(c))
        /\ campaigns[c].totalDonors = Len(campaignDonors[c])
        /\ Range(campaignDonors[c]) = Donors(c)

C8_DonationStep ==
    \A c \in CampaignIds :
        (Created(c) /\ (campaigns'[c].raisedAmount # campaigns[c].raisedAmount
                        \/ campaignDonations'[c] # campaignDonations[c]
                        \/ campaignDonors'[c] # campaignDonors[c]
                        \/ campaigns'[c].totalDonors # campaigns[c].totalDonors)) =>
            /\ campaigns[c].status = "Active"
            /\ now <= campaigns[c].endDate
            /\ ~factoryPaused
            /\ \E d \in Addr, v \in 1..(2 * MaxAmount) :
                  /\ campaigns'[c].raisedAmount = campaigns[c].raisedAmount + v
                  /\ campaignDonations'[c] =
                        [campaignDonations[c] EXCEPT ![d] = @ + v]
                  /\ campaignFunds'[c] = campaignFunds[c] + v
                  /\ balance' = balance + v

C8_DonationsAdditive == []C8_DonationBooks /\ [][C8_DonationStep]_vars

(* Two donors on the books, three units raised between them *)
C8_Witness ==
    \E c \in CampaignIds :
        /\ campaigns[c].totalDonors = 2
        /\ Len(campaignDonors[c]) = 2
        /\ campaigns[c].raisedAmount = 3

----------------------------------------------------------------------------
(* C9: an accepted donation leaves the campaign Completed if and only if   *)
(* raisedAmount after it is >= targetAmount; otherwise the campaign is     *)
(* still Active.                                                           *)
C9_DonateStep ==
    \A c \in CampaignIds :
        (Created(c) /\ campaigns'[c].raisedAmount # campaigns[c].raisedAmount) =>
            /\ campaigns[c].status = "Active"
            /\ campaigns'[c].status =
                  IF campaigns'[c].raisedAmount >= campaigns[c].targetAmount
                  THEN "Completed" ELSE "Active"

C9_AutoComplete == [][C9_DonateStep]_vars

(* A second donation that was exactly the rest of the target *)
C9_Witness ==
    \E c \in CampaignIds :
        /\ campaigns[c].status = "Completed"
        /\ campaigns[c].raisedAmount = campaigns[c].targetAmount
        /\ campaigns[c].totalDonors = 2

----------------------------------------------------------------------------
(* C10: every step that creates a campaign is a createCampaign by a        *)
(* registered organization whose status is Verified and which is active    *)
(* in the state of the call, with targetAmount > 0 and duration > 0; the   *)
(* campaign starts Active with raisedAmount 0 and endDate = now +          *)
(* duration.  For a caller that is not such an organization the call       *)
(* reverts, whatever the arguments.                                        *)
C10_Rejected ==
    \A caller \in Addr :
        ~(/\ addressToNgoId[caller] # 0
          /\ ngos[addressToNgoId[caller]].status = "Verified"
          /\ ngos[addressToNgoId[caller]].isActive) =>
            \A t \in 0..MaxAmount, d \in Durations :
                createCampaignErr(caller, t, d)
                    \in {"Only verified NGOs can create campaigns", EnforcedPause}

C10_CreateStep ==
    (campaignIdCounter' # campaignIdCounter
     \/ \E c \in CampaignIds : ~Created(c) /\ campaigns'[c] # campaigns[c]) =>
        LET c == campaignIdCounter + 1
            owner == campaigns'[c].ngoAddress
        IN  /\ campaignIdCounter' = c
            /\ \A o \in CampaignIds \ {c} : campaigns'[o] = campaigns[o]
            /\ addressToNgoId[owner] # 0
            /\ ngos[addressToNgoId[owner]].status = "Verified"
            /\ ngos[addressToNgoId[owner]].isActive
            /\ ~factoryPaused
            /\ campaigns'[c].campaignId = c
            /\ campaigns'[c].status = "Active"
            /\ campaigns'[c].raisedAmount = 0
            /\ campaigns'[c].targetAmount > 0
            /\ \E d \in Durations \ {0} : campaigns'[c].endDate = now + d

C10_CreateCampaign == []C10_Rejected /\ [][C10_CreateStep]_vars

(* A campaign exists whose organization has since lost its verification *)
C10_Witness ==
    \E c \in CampaignIds :
        /\ Created(c)
        /\ ngos[addressToNgoId[campaigns[c].ngoAddress]].status = "Suspended"

----------------------------------------------------------------------------
(* C11: a token's status only moves Active -> Redeemed, Active -> Expired  *)
(* or Active -> Revoked.  On a token that is Redeemed, Expired or Revoked, *)
(* redeemToken, revokeToken and markExpired revert for every caller, and   *)
(* no step changes the status of such a token.                             *)
C11_TerminalCallsFail ==
    \A t \in TokenIds :
        (exists(t) /\ tokenMetadata[t].status # "Active") =>
            /\ \A caller \in Addr \cup redeemerRole, p \in Proofs :
                  redeemTokenErr(caller, t, p) # Ok
            /\ \A caller \in Addr : revokeTokenErr(caller, t) # Ok
            /\ markExpiredErr(t) # Ok

C11_StatusStep ==
    \A t \in TokenIds :
        (exists(t) /\ tokenMetadata'[t].status # tokenMetadata[t].status) =>
            /\ tokenMetadata[t].status = "Active"
            /\ tokenMetadata'[t].status \in {"Redeemed", "Expired", "Revoked"}

C11_ForwardOnly == []C11_TerminalCallsFail /\ [][C11_StatusStep]_vars

(* An Expired token and a Revoked token, with the admin and a redeemer at hand *)
C11_Witness ==
    /\ \E t \in TokenIds : exists(t) /\ tokenMetadata[t].status = "Expired"
    /\ \E t \in TokenIds : exists(t) /\ tokenMetadata[t].status = "Revoked"
    /\ redeemerRole \cap Addr # {}
    /\ ~tokenPaused

----------------------------------------------------------------------------
----------------------------------------------------------------------------
(* Voting power recorded on proposal p by the voters of S that voted v *)
RECURSIVE SumPower(_, _, _)
SumPower(p, v, S) ==
    IF S = {} THEN 0
    ELSE LET x == CHOOSE y \in S : TRUE
             vote == proposalAt(p).votes[x]
         IN  (IF vote.hasVoted /\ vote.voteType = v THEN vote.votingPower ELSE 0)
             + SumPower(p, v, S \ {x})

(* C13: at most one vote per voter and proposal.  A castVote by a voter    *)
(* whose vote is already recorded on the proposal (the proposer's          *)
(* automatic vote included) reverts; a recorded vote is never rewritten;   *)
(* the tallies move only in a step that records one new voter's vote, by   *)
(* that vote's power, so upvotes and downvotes are the sums of the         *)
(* recorded votes.                                                         *)
C13_SecondVoteFails ==
    \A p \in GovProposalIds, v \in Addr :
        proposalAt(p).votes[v].hasVoted => castVoteErr(v, p) # Ok

C13_Tally ==
    \A p \in GovProposalIds :
        /\ proposalAt(p).upvotes = SumPower(p, "Upvote", Addr)
        /\ proposalAt(p).downvotes = SumPower(p, "Downvote", Addr)
        /\ proposalAt(p).proposalId # 0 => proposalAt(p).votes[proposalAt(p).proposer].hasVoted

C13_VoteStep ==
    \A p \in GovProposalIds :
        /\ \A v \in Addr :
              proposalAt(p).votes[v].hasVoted =>
                  proposalAt(p)'.votes[v] = proposalAt(p).votes[v]
        /\ (proposalAt(p)'.upvotes # proposalAt(p).upvotes
            \/ proposalAt(p)'.downvotes # proposalAt(p).downvotes) =>
              \E v \in Addr :
                  /\ ~proposalAt(p).votes[v].hasVoted
                  /\ proposalAt(p)'.votes[v].hasVoted
                  /\ \A w \in Addr \ {v} : proposalAt(p)'.votes[w] = proposalAt(p).votes[w]

C13_OneVotePerVoter ==
    []C13_SecondVoteFails /\ []C13_Tally /\ [][C13_VoteStep]_vars

(* An open proposal carrying its proposer's vote and another voter's vote *)
C13_Witness ==
    \E p \in GovProposalIds :
        /\ proposalAt(p).proposalId # 0
        /\ now <= proposalAt(p).endTime
        /\ \E v \in Addr \ {proposalAt(p).proposer} :
              /\ proposalAt(p).votes[v].hasVoted
              /\ userReputations[v].score >= MIN_REPUTATION_TO_VOTE
        /\ proposalAt(p).votes[proposalAt(p).proposer].hasVoted
        /\ userReputations[proposalAt(p).proposer].score >= MIN_REPUTATION_TO_VOTE

----------------------------------------------------------------------------
(* C14 (as claimed): a proposal is marked executed only by an              *)
(* executeProposal call made after its voting window, so a proposal that   *)
(* is executed has its endTime in the past.                                *)
C14_ExecutedOnlyAfterEnd ==
    \A p \in GovProposalIds :
        (proposalAt(p).proposalId # 0 /\ proposalAt(p).executed) =>
            now > proposalAt(p).endTime

----------------------------------------------------------------------------
(* C15 (as claimed): executing a failed proposal leaves its proposer with  *)
(* max(0, score - 10).                                                     *)
C15_FailureStep ==
    \A p \in ProposalIds :
        (/\ proposalAt(p).proposalId # 0
         /\ ~proposalAt(p).executed /\ proposalAt(p)'.executed
         /\ proposalAt(p).upvotes <= proposalAt(p).downvotes) =>
            LET score == userReputations[proposalAt(p).proposer].score
            IN  userReputations'[proposalAt(p).proposer].score =
                    IF score - REPUTATION_CHANGE_PER_VOTE > 0
                    THEN score - REPUTATION_CHANGE_PER_VOTE ELSE 0

C15_FailurePenalty == [][C15_FailureStep]_vars

----------------------------------------------------------------------------
(* C16: an execution counts the proposal as passed iff upvotes > downvotes *)
(* (a tie fails).  If it passed, the proposer's score goes up by twice the *)
(* reputation delta and exactly one success counter goes up by 1, the one  *)
(* of the proposal's type; if it did not pass, no success counter and no   *)
(* score goes up.  Nobody else's reputation record changes.                *)
C16_ExecuteStep ==
    \A p \in GovProposalIds :
        (~proposalAt(p).executed /\ proposalAt(p)'.executed) =>
            LET proposer == proposalAt(p).proposer
                old == userReputations[proposer]
                new == userReputations'[proposer]
            IN  /\ \A u \in GovUsers \ {proposer} :
                      userReputations'[u] = userReputations[u]
                /\ IF proposalAt(p).upvotes > proposalAt(p).downvotes
                   THEN /\ new.score = old.score + 2 * REPUTATION_CHANGE_PER_VOTE
                        /\ new.successfulVerifications = old.successfulVerifications
                             + (IF proposalAt(p).proposalType = "Verification" THEN 1 ELSE 0)
                        /\ new.successfulChallenges = old.successfulChallenges
                             + (IF proposalAt(p).proposalType = "Challenge" THEN 1 ELSE 0)
                   ELSE /\ new.score <= old.score
                        /\ new.successfulVerifications = old.successfulVerifications
                        /\ new.successfulChallenges = old.successfulChallenges

----------------------------------------------------------------------------
(* C17 (as claimed): every reputation score lies within 0..1000.           *)
C17_ScoreBounded ==
    \A u \in GovUsers :
        userReputations[u].score >= 0 /\ userReputations[u].score <= ScoreScale

----------------------------------------------------------------------------
(* C18 (as claimed): on a Pending organization verifyNGOThroughGovernance  *)
(* goes through iff the caller is authorized: before the freeze a holder   *)
(* of the Verifier capability or a reputation of at least 100, after the   *)
(* freeze a reputation of at least 100.                                    *)
C18_GovernanceVerifyAuthorized ==
    \A i \in NgoIds, caller \in RegistryGovCallers :
        (ngos[i].ngoId # 0 /\ ngos[i].status = "Pending") =>
            ((verifyNGOThroughGovernanceErr(caller, i) = Ok)
                <=> IF adminVerificationFrozen
                    THEN userReputations[caller].score >= 100
                    ELSE caller \in RegistryVerifiers
                         \/ userReputations[caller].score >= 100)

----------------------------------------------------------------------------
(* C19 (as claimed): on a Verified organization                            *)
(* suspendNGOThroughGovernance goes through iff the caller's reputation    *)
(* score is at least 200.                                                  *)
C19_GovernanceSuspendAuthorized ==
    \A i \in NgoIds, caller \in RegistryGovCallers :
        (ngos[i].ngoId # 0 /\ ngos[i].status = "Verified") =>
            ((suspendNGOThroughGovernanceErr(caller, i) = Ok)
                <=> userReputations[caller].score >= 200)

----------------------------------------------------------------------------
(* C20: the freeze is one-way.  Once adminVerificationFrozen is set it     *)
(* stays set, freezeAdminVerification and verifyNGO revert for every       *)
(* caller, and an organization becomes Verified only in a state where      *)
(* verifyNGOThroughGovernance is open to a caller whose reputation is at   *)
(* least 100.                                                              *)
C20_FrozenCallsFail ==
    adminVerificationFrozen =>
        /\ \A caller \in Addr : freezeAdminVerificationErr(caller) # Ok
        /\ \A caller \in Addr, i \in NgoIds : verifyNGOErr(caller, i) # Ok

C20_FrozenStep ==
    adminVerificationFrozen =>
        /\ adminVerificationFrozen'
        /\ \A i \in NgoIds :
              (ngos[i].status # "Verified" /\ ngos'[i].status = "Verified") =>
                  \E caller \in Addr :
                      /\ userReputations[caller].score >= 100
                      /\ verifyNGOThroughGovernanceErr(caller, i) = Ok

C20_FreezeOneWay == []C20_FrozenCallsFail /\ [][C20_FrozenStep]_vars

(* After the freeze: a Pending organization, a verifier without reputation *)
(* and a caller to whom the governance path is open                        *)
C20_Witness ==
    /\ adminVerificationFrozen
    /\ \E i \in NgoIds :
          /\ ngos[i].ngoId # 0 /\ ngos[i].status = "Pending"
          /\ \E caller \in Addr : verifyNGOThroughGovernanceErr(caller, i) = Ok
          /\ \E caller \in RegistryVerifiers : userReputations[caller].score = 0

----------------------------------------------------------------------------
(* C21: an organization's status moves only along Pending -> Verified      *)
(* (verifyNGO, verifyNGOThroughGovernance), Pending -> Rejected            *)
(* (rejectNGO), Verified -> Suspended (suspendNGO,                         *)
(* suspendNGOThroughGovernance) and any -> Blacklisted (blacklistNGO);     *)
(* the verifying and rejecting calls fail on an organization that is not   *)
(* Pending and the suspending calls on one that is not Verified, and a     *)
(* failed call changes nothing; an address that owns an organization       *)
(* cannot register another, and an organization once registered keeps its  *)
(* id and its address.                                                     *)
C21_Edge(from, to) ==
    \/ from = to
    \/ from = "Pending" /\ to \in {"Verified", "Rejected"}
    \/ from = "Verified" /\ to = "Suspended"
    \/ to = "Blacklisted"

C21_OtherCallsFail ==
    /\ \A i \in NgoIds, caller \in Addr :
          /\ ngos[i].status # "Pending" =>
                /\ verifyNGOErr(caller, i) # Ok
                /\ verifyNGOThroughGovernanceErr(caller, i) # Ok
                /\ rejectNGOErr(caller, i) # Ok
          /\ ngos[i].status # "Verified" =>
                /\ suspendNGOErr(caller, i) # Ok
                /\ suspendNGOThroughGovernanceErr(caller, i) # Ok
    /\ \A a \in Addr :
          addressToNgoId[a] # 0 =>
              /\ ngos[addressToNgoId[a]].ngoAddress = a
              /\ \A caller \in Addr, name \in Names, registrationNumber \in Names :
                    registerNGOErr(caller, a, name, registrationNumber) # Ok
    /\ \A i \in NgoIds, j \in NgoIds :
          (ngos[i].ngoId # 0 /\ ngos[j].ngoId # 0
             /\ ngos[i].ngoAddress = ngos[j].ngoAddress) => i = j

C21_StatusStep ==
    /\ \A i \in NgoIds :
          /\ C21_Edge(ngos[i].status, ngos'[i].status)
          /\ ngos[i].ngoId # 0 =>
                /\ ngos'[i].ngoId = ngos[i].ngoId
                /\ ngos'[i].ngoAddress = ngos[i].ngoAddress
    /\ \A a \in Addr :
          addressToNgoId[a] # 0 => addressToNgoId'[a] = addressToNgoId[a]

C21_StatusEdges == []C21_OtherCallsFail /\ [][C21_StatusStep]_vars

(* A Suspended organization, reached through Pending and Verified, while   *)
(* the administrative path of verification is still open                  *)
C21_Witness ==
    /\ ~adminVerificationFrozen
    /\ \E i \in NgoIds :
          /\ ngos[i].ngoId # 0 /\ ngos[i].status = "Suspended"
          /\ addressToNgoId[ngos[i].ngoAddress] = i

(* C22: an organization's reputationScore is 500 at registration and      *)
(* always within 0..1000: updateReputation with a newScore above 1000     *)
(* fails.                                                                  *)
C22_ScoreInRange ==
    /\ \A i \in NgoIds : ngos[i].reputationScore \in 0..1000
    /\ \A caller \in Addr, i \in NgoIds, newScore \in Scores :
          newScore > 1000 => updateReputationErr(caller, i, newScore) # Ok

C22_RegistrationStep ==
    \A i \in NgoIds :
        (ngos[i].ngoId = 0 /\ ngos'[i].ngoId # 0) => ngos'[i].reputationScore = 500

C22_ReputationBounded == []C22_ScoreInRange /\ [][C22_RegistrationStep]_vars

(* An organization whose score an administrator has moved to the upper end *)
C22_Witness ==
    \E i \in NgoIds : ngos[i].ngoId # 0 /\ ngos[i].reputationScore = 1000

----------------------------------------------------------------------------
(* C25 (as claimed): votes are accepted only in [startTime, endTime): a    *)
(* castVote made when the time is at or after a proposal's endTime, the    *)
(* instant endTime itself included, fails.                                 *)
C25_WindowClosedAtEnd ==
    \A p \in GovProposalIds, caller \in Addr :
        (proposalAt(p).proposalId # 0 /\ now >= proposalAt(p).endTime) =>
            castVoteErr(caller, p) # Ok

(* C29: castVote by a caller whose reputation is under 100 fails; a vote   *)
(* that goes through records the weight floor(r * 100 / 1000) of the       *)
(* voter's reputation r at that moment, the recorded weight never changes  *)
(* afterwards, it is added to upvotes or to downvotes by the vote's        *)
(* direction, and upvotes + downvotes = totalVotingPower = the sum of the  *)
(* recorded weights.                                                       *)
C29_LowReputationFails ==
    \A p \in GovProposalIds, caller \in Addr :
        userReputations[caller].score < 100 => castVoteErr(caller, p) # Ok

C29_TallyIsTotal ==
    \A p \in GovProposalIds :
        /\ proposalAt(p).upvotes + proposalAt(p).downvotes = proposalAt(p).totalVotingPower
        /\ proposalAt(p).totalVotingPower =
               SumPower(p, "Upvote", Addr) + SumPower(p, "Downvote", Addr)

C29_WeightStep ==
    \A p \in GovProposalIds, v \in Addr :
        LET before == proposalAt(p)
            after == proposalAt(p)'
            weight == (userReputations[v].score * 100) \div 1000
        IN  /\ before.votes[v].hasVoted =>
                  after.votes[v].votingPower = before.votes[v].votingPower
            /\ (~before.votes[v].hasVoted /\ after.votes[v].hasVoted) =>
                  /\ after.votes[v].votingPower = weight
                  /\ after.totalVotingPower = before.totalVotingPower + weight
                  /\ IF after.votes[v].voteType = "Upvote"
                     THEN /\ after.upvotes = before.upvotes + weight
                          /\ after.downvotes = before.downvotes
                     ELSE /\ after.downvotes = before.downvotes + weight
                          /\ after.upvotes = before.upvotes

C29_WeightedVotes ==
    []C29_LowReputationFails /\ []C29_TallyIsTotal /\ [][C29_WeightStep]_vars

(* A proposal holding an upvote and a downvote of positive weight, the     *)
(* upvote no longer the weight its voter's present reputation would give   *)
C29_Witness ==
    \E p \in GovProposalIds, v \in Addr, w \in Addr :
        /\ proposalAt(p).votes[v].hasVoted /\ proposalAt(p).votes[w].hasVoted
        /\ proposalAt(p).votes[v].voteType = "Upvote"
        /\ proposalAt(p).votes[w].voteType = "Downvote"
        /\ proposalAt(p).votes[v].votingPower > 0
        /\ proposalAt(p).votes[w].votingPower > 0
        /\ proposalAt(p).votes[v].votingPower # calculateVotingPower(v)

----------------------------------------------------------------------------
(* C28 (as claimed): every token is backed: a token that exists belongs to *)
(* a campaign that was created, and for every campaign id the entitled     *)
(* amounts of its tokens sum to at most the campaign's raisedAmount.       *)
C28_TokensBacked ==
    \A t \in TokenIds :
        exists(t) =>
            /\ tokenMetadata[t].campaignId \in CampaignIds
            /\ Created(tokenMetadata[t].campaignId)
            /\ SumEntitled(TokensOf(tokenMetadata[t].campaignId))
                   <= campaigns[tokenMetadata[t].campaignId].raisedAmount

(* C30 (as claimed): in every state, redeemToken(t, proof) with a          *)
(* non-empty proof by a holder of the Redeemer role goes through exactly   *)
(* when isTokenRedeemable(t).                                              *)
C30_RedeemableIffRedeemSucceeds ==
    \A t \in TokenIds, caller \in redeemerRole :
        (redeemTokenErr(caller, t, "Qm") = Ok) <=> isTokenRedeemable(t)

(* C30 (amended): isTokenRedeemable(t) holds exactly when t exists, is     *)
(* Active, is not redeemed and now <= expiryDate; while the token contract *)
(* is not paused, redeemToken(t, proof) with a non-empty proof by a holder *)
(* of the Redeemer role goes through exactly when isTokenRedeemable(t),    *)
(* and with the contract paused it fails whatever isTokenRedeemable says.  *)
C30_RedeemableIffRedeemSucceedsUnpaused ==
    \A t \in TokenIds, caller \in redeemerRole :
        /\ isTokenRedeemable(t) <=>
              (owners[t] # Zero /\ tokenMetadata[t].status = "Active"
                 /\ ~tokenMetadata[t].isRedeemed /\ now <= tokenMetadata[t].expiryDate)
        /\ ~tokenPaused =>
              ((redeemTokenErr(caller, t, "Qm") = Ok) <=> isTokenRedeemable(t))
        /\ tokenPaused => redeemTokenErr(caller, t, "Qm") # Ok

(* The contract not paused, a Redeemer holder, a token that is redeemable  *)
(* and a token past its expiry date that is still Active                   *)
C30_Witness ==
    /\ ~tokenPaused
    /\ redeemerRole # {}
    /\ \E t \in TokenIds, u \in TokenIds :
          /\ isTokenRedeemable(t)
          /\ exists(u) /\ tokenMetadata[u].status = "Active"
          /\ ~tokenMetadata[u].isRedeemed /\ now > tokenMetadata[u].expiryDate

----------------------------------------------------------------------------
(* Events: the sequence of events a call that goes through emits *)

updateReputationEvents(ngoId, newScore) ==
    <<[name |-> "NGOReputationUpdated",
       args |-> <<ngoId, ngos[ngoId].reputationScore, newScore>>]>>

updateStatisticsEvents(ngoId, campaignCount, fundsRaised, beneficiaries) == <<>>

initializeReputationEvents(user) == <<>>

updatePlatformFeeEvents(newFeePercentage) == <<>>

updateFeeCollectorEvents(newFeeCollector) == <<>>

executeProposalEvents(proposalId) ==
    <<[name |-> "ProposalExecuted", args |-> <<proposalId, passed(proposalId)>>]>>

(* C26 (as claimed): every call that goes through and changes the state    *)
(* emits at least one event; in particular updateReputation,               *)
(* updateStatistics, initializeReputation, updatePlatformFee and           *)
(* updateFeeCollector do, and an executeProposal that changes a            *)
(* reputation emits an event of that change.                               *)
C26_EmitStep ==
    /\ \A caller \in Addr, i \in NgoIds, newScore \in Scores :
          (updateReputationErr(caller, i, newScore) = Ok
             /\ updateReputation(caller, i, newScore)) =>
              updateReputationEvents(i, newScore) # <<>>
    /\ \A caller \in Addr, i \in NgoIds, c \in Statistics, f \in Statistics, b \in Statistics :
          (updateStatisticsErr(caller, i) = Ok /\ updateStatistics(caller, i, c, f, b)) =>
              updateStatisticsEvents(i, c, f, b) # <<>>
    /\ \A caller \in Addr, user \in Addr :
          (initializeReputationErr(caller, user) = Ok
             /\ initializeReputation(caller, user)) =>
              initializeReputationEvents(user) # <<>>
    /\ \A caller \in Addr, newFeePercentage \in 0..(MaxPlatformFee + 1) :
          (updatePlatformFeeErr(caller, newFeePercentage) = Ok
             /\ updatePlatformFee(caller, newFeePercentage)) =>
              updatePlatformFeeEvents(newFeePercentage) # <<>>
    /\ \A caller \in Addr, newFeeCollector \in Addr :
          (updateFeeCollectorErr(caller, newFeeCollector) = Ok
             /\ updateFeeCollector(caller, newFeeCollector)) =>
              updateFeeCollectorEvents(newFeeCollector) # <<>>
    /\ \A caller \in Addr, p \in GovProposalIds :
          (executeProposalErr(p) = Ok /\ executeProposal(caller, p)
             /\ userReputations' # userReputations) =>
              \E k \in DOMAIN executeProposalEvents(p) :
                  executeProposalEvents(p)[k].name = "ReputationUpdated"

C26_EveryChangeEmits == [][C26_EmitStep]_vars

----------------------------------------------------------------------------
(* C27: issueBeneficiaryToken is atomic across the ledger and the token    *)
(* contract: when the delegated mint fails (zero beneficiary, token        *)
(* contract paused, ledger without MINTER_ROLE) the whole call fails and   *)
(* neither contract changes; when it goes through, exactly one new token   *)
(* exists, Active, carrying the campaign id and the amount, and the        *)
(* campaign's escrow is lower by exactly that amount.                      *)
C27_MintFailureFails ==
    \A caller \in Addr, c \in CampaignIds, b \in Beneficiaries \cup {Zero},
       a \in 0..MaxAmount, v \in Validities :
        (b = Zero \/ tokenPaused \/ Factory \notin minterRole) =>
            issueBeneficiaryTokenErr(caller, c, b, a, v) # Ok

C27_IssueStep ==
    LET t == tokenIdCounter
        minted == tokenIdCounter' # tokenIdCounter
        lowered == {c \in CampaignIds : campaignFunds'[c] < campaignFunds[c]}
    IN  /\ minted <=> lowered # {}
        /\ ~minted => (tokenMetadata' = tokenMetadata /\ owners' = owners)
        /\ minted =>
              /\ ~tokenPaused /\ Factory \in minterRole
              /\ tokenIdCounter' = tokenIdCounter + 1
              /\ owners[t] = Zero /\ owners'[t] # Zero
              /\ \A u \in TokenIds \ {t} :
                    owners'[u] = owners[u] /\ tokenMetadata'[u] = tokenMetadata[u]
              /\ tokenMetadata'[t].status = "Active"
              /\ tokenMetadata'[t].entitledAmount > 0
              /\ lowered = {tokenMetadata'[t].campaignId}
              /\ \A c \in lowered :
                    /\ campaignFunds'[c] = campaignFunds[c] - tokenMetadata'[t].entitledAmount
                    /\ campaigns'[c].totalBeneficiaries = campaigns[c].totalBeneficiaries + 1

C27_IssueAtomic == []C27_MintFailureFails /\ [][C27_IssueStep]_vars

(* One token issued, then the ledger's MINTER_ROLE revoked while the       *)
(* campaign is Active and still holds escrow                               *)
C27_Witness ==
    /\ tokenIdCounter = 1
    /\ Factory \notin minterRole
    /\ \E c \in CampaignIds :
          /\ campaigns[c].status = "Active"
          /\ campaignFunds[c] > 0
          /\ tokenMetadata[0].campaignId = c

----------------------------------------------------------------------------
(* C23: while releaseFunds is making its two transfers, a call back into   *)
(* releaseFunds, donate or issueBeneficiaryToken fails, and the call that  *)
(* is in progress ends with the effects it would have had without the      *)
(* attempt: either both payments, taken from the balance the call started  *)
(* with, or nothing at all; nothing else of the ledger or the token        *)
(* contract moves while the call is in progress.                           *)
C23_NestedCallsFail ==
    /\ entered <=> frame # NoFrame
    /\ entered =>
          /\ \A caller \in Addr, c \in CampaignIds, v \in ReleaseDonations :
                donateErr(caller, c, v) # Ok
          /\ \A caller \in Addr, c \in CampaignIds, b \in Beneficiaries \cup {Zero},
                a \in 0..MaxAmount, v \in Validities :
                issueBeneficiaryTokenErr(caller, c, b, a, v) # Ok
          /\ \A caller \in Addr, c \in CampaignIds, r \in Addr \cup {Zero},
                a \in ReleaseAmounts :
                releaseFundsRequireErr(caller, c, r, a) # Ok

C23_InProgressStep ==
    entered =>
        /\ UNCHANGED <<campaignIdCounter, campaigns, campaignDonors, campaignDonations,
                       campaignFunds, factoryPaused, tokenVars, configVars>>
        /\ ~entered' =>
              \/ /\ balance' = frame.balance
                 /\ received' = frame.received
                 /\ released' = released
              \/ /\ balance' = frame.balance - frame.amount
                 /\ received' = paid(paid(frame.received, feeCollector, frame.fee),
                                     frame.recipient, frame.netAmount)
                 /\ released' = [released EXCEPT ![frame.campaignId] = @ + frame.amount]

C23_ReentrancyRejected == []C23_NestedCallsFail /\ [][C23_InProgressStep]_vars

(* The fee paid and control with the recipient, at a moment when a         *)
(* donation to an Active campaign would otherwise be accepted and the      *)
(* campaign's creator could otherwise issue a token                        *)
C23_Witness ==
    /\ entered
    /\ frame.stage = "net"
    /\ frame.recipient = "prov"
    /\ ~factoryPaused /\ ~tokenPaused
    /\ \E c \in CampaignIds :
          /\ campaigns[c].status = "Active"
          /\ now <= campaigns[c].endDate
          /\ campaignFunds[c] > 0

(* C24: releaseFunds pays fee = floor(amount * platformFeePercentage /     *)
(* 10000) to the fee collector and net = amount - fee to the recipient,    *)
(* fee + net = amount; platformFeePercentage starts at 250 and is never    *)
(* above 1000, updatePlatformFee failing for a larger value; when either   *)
(* transfer fails neither payment has taken effect.                        *)
C24_InitialFee == platformFeePercentage = 250

C24_FeeBounded ==
    /\ platformFeePercentage <= 1000
    /\ \A caller \in Addr, f \in FeePercentages :
          f > 1000 => updatePlatformFeeErr(caller, f) # Ok
    /\ \A a \in ReleaseAmounts :
          /\ fee(a) * 10000 <= a * platformFeePercentage
          /\ a * platformFeePercentage < (fee(a) + 1) * 10000
          /\ netAmount(a) = a - fee(a)
          /\ fee(a) + netAmount(a) = a
    /\ frame.fee + frame.netAmount = frame.amount

C24_PaymentStep ==
    /\ (~entered /\ entered') =>
          /\ frame'.fee * 10000 <= frame'.amount * platformFeePercentage
          /\ frame'.amount * platformFeePercentage < (frame'.fee + 1) * 10000
          /\ UNCHANGED <<balance, received, released>>
    /\ (frame.stage = "fee" /\ frame'.stage = "net") =>
          /\ received' = paid(received, feeCollector, frame.fee)
          /\ balance' = balance - frame.fee
    /\ (frame.stage = "net" /\ released' # released) =>
          /\ received' = paid(received, frame.recipient, frame.amount - frame.fee)
          /\ balance' = frame.balance - frame.amount
    /\ (entered /\ ~entered' /\ released' = released) =>
          /\ balance' = frame.balance
          /\ received' = frame.received

C24_FeeSplit == C24_InitialFee /\ []C24_FeeBounded /\ [][C24_PaymentStep]_vars

(* A release at the largest fee whose fee of 4 has reached the collector   *)
(* and whose net amount of 36 is about to go to a different recipient      *)
C24_Witness ==
    /\ platformFeePercentage = 1000
    /\ frame.stage = "net"
    /\ frame.fee = 4 /\ frame.netAmount = 36
    /\ frame.recipient # feeCollector
    /\ received[feeCollector] >= 4

----------------------------------------------------------------------------
(* C31: revokeToken goes through exactly for a holder of the token         *)
(* contract's ADMIN_ROLE on an existing Active token, before or after the  *)
(* token's expiry date; it moves the token to Revoked and changes nothing  *)
(* else, and on a Revoked token redeemToken and markExpired always fail    *)
(* and the status stays Revoked.                                           *)
C31_RevokeEnabled ==
    \A t \in TokenIds :
        /\ \A caller \in Addr \cup {SPRegistry, Factory} :
              (revokeTokenErr(caller, t) = Ok) <=>
                  (caller \in TokenAdmins /\ exists(t)
                     /\ tokenMetadata[t].status = "Active")
        /\ tokenMetadata[t].status = "Revoked" =>
              /\ \A caller \in Addr \cup redeemerRole, p \in Proofs :
                    redeemTokenErr(caller, t, p) # Ok
              /\ markExpiredErr(t) # Ok

C31_RevokeStep ==
    \A t \in TokenIds :
        /\ tokenMetadata[t].status = "Revoked" => tokenMetadata'[t] = tokenMetadata[t]
        /\ (tokenMetadata[t].status # "Revoked" /\ tokenMetadata'[t].status = "Revoked") =>
              /\ exists(t)
              /\ tokenMetadata[t].status = "Active"
              /\ tokenMetadata'[t] = [tokenMetadata[t] EXCEPT !.status = "Revoked"]
              /\ owners' = owners

C31_RevokeOnlyActive == []C31_RevokeEnabled /\ [][C31_RevokeStep]_vars

(* A Revoked token past its expiry date with a redeemer at hand, next to   *)
(* an Active token past its expiry date that the admin can still revoke    *)
C31_Witness ==
    /\ redeemerRole \cap Addr # {}
    /\ \E t \in TokenIds, u \in TokenIds :
          /\ exists(t) /\ tokenMetadata[t].status = "Revoked"
          /\ now > tokenMetadata[t].expiryDate
          /\ exists(u) /\ tokenMetadata[u].status = "Active"
          /\ now > tokenMetadata[u].expiryDate
          /\ \E caller \in TokenAdmins : revokeTokenErr(caller, u) = Ok

----------------------------------------------------------------------------
(* C32: a campaign is created Active and its status changes only by        *)
(* pauseCampaign (Active -> Paused) and resumeCampaign (Paused -> Active), *)
(* open only to the campaign's creator and to holders of ADMIN_ROLE, and   *)
(* by the auto-completion of donate (Active -> Completed); Completed is    *)
(* terminal, and no created campaign is ever Draft or Cancelled.           *)
C32_StatusCalls ==
    \A c \in CampaignIds :
        /\ Created(c) => campaigns[c].status \in {"Active", "Paused", "Completed"}
        /\ \A caller \in Addr :
              /\ (pauseCampaignErr(caller, c) = Ok) <=>
                    (Created(c) /\ campaigns[c].status = "Active"
                       /\ (caller = campaigns[c].ngoAddress \/ caller \in FactoryAdmins))
              /\ (resumeCampaignErr(caller, c) = Ok) <=>
                    (Created(c) /\ campaigns[c].status = "Paused"
                       /\ (caller = campaigns[c].ngoAddress \/ caller \in FactoryAdmins))
              /\ (Created(c) /\ campaigns[c].status = "Completed") =>
                    \A v \in 0..MaxAmount : donateErr(caller, c, v) # Ok

C32_StatusStep ==
    \A c \in CampaignIds :
        /\ (~Created(c) /\ Created(c)') => campaigns'[c].status = "Active"
        /\ (Created(c) /\ campaigns'[c].status # campaigns[c].status) =>
              \/ /\ campaigns[c].status = "Active" /\ campaigns'[c].status = "Paused"
                 /\ campaigns'[c] = [campaigns[c] EXCEPT !.status = "Paused"]
              \/ /\ campaigns[c].status = "Paused" /\ campaigns'[c].status = "Active"
                 /\ campaigns'[c] = [campaigns[c] EXCEPT !.status = "Active"]
              \/ /\ campaigns[c].status = "Active" /\ campaigns'[c].status = "Completed"
                 /\ campaigns'[c].raisedAmount > campaigns[c].raisedAmount
                 /\ campaigns'[c].raisedAmount >= campaigns[c].targetAmount

C32_CampaignStatusEdges == []C32_StatusCalls /\ [][C32_StatusStep]_vars

(* A Completed campaign whose raised amount went past the target, with the *)
(* ledger not paused: its creator and the admin can neither pause nor      *)
(* resume it                                                               *)
C32_Witness ==
    /\ ~factoryPaused
    /\ \E c \in CampaignIds :
          /\ Created(c) /\ campaigns[c].status = "Completed"
          /\ campaigns[c].raisedAmount > campaigns[c].targetAmount
          /\ campaigns[c].totalDonors = 2

----------------------------------------------------------------------------
(* C33: a milestone's status only moves forward: completeMilestone goes    *)
(* through only for the campaign's creator on an existing milestone that   *)
(* is Pending or InProgress, and sets it Completed with the given proof    *)
(* and the time of the call; a Completed milestone never changes again, a  *)
(* second completeMilestone on it failing; addMilestone goes through only  *)
(* for the creator while the campaign is Draft or Active, and appends a    *)
(* Pending milestone.                                                      *)
C33_MilestoneCalls ==
    \A c \in CampaignIds, caller \in Addr :
        /\ (addMilestoneErr(caller, c) = Ok) <=>
              (Created(c) /\ caller = campaigns[c].ngoAddress
                 /\ campaigns[c].status \in {"Draft", "Active"})
        /\ \A k \in MilestoneIndexes :
              (completeMilestoneErr(caller, c, k) = Ok) <=>
                  (Created(c) /\ caller = campaigns[c].ngoAddress
                     /\ k + 1 \in DOMAIN campaignMilestones[c]
                     /\ campaignMilestones[c][k + 1].status \in {"Pending", "InProgress"})
        /\ \A i \in DOMAIN campaignMilestones[c] :
              (campaignMilestones[c][i].status = "Completed") <=>
                  (campaignMilestones[c][i].completedAt # 0)

C33_MilestoneStep ==
    \A c \in CampaignIds :
        LET before == campaignMilestones[c]
            after == campaignMilestones'[c]
        IN  /\ Len(after) \in {Len(before), Len(before) + 1}
            /\ Len(after) = Len(before) + 1 =>
                  /\ after[Len(after)].status = "Pending"
                  /\ campaigns[c].status \in {"Draft", "Active"}
                  /\ campaigns'[c].hasMilestones
            /\ \A i \in DOMAIN before :
                  /\ before[i].status = "Completed" => after[i] = before[i]
                  /\ after[i] # before[i] =>
                        /\ before[i].status \in {"Pending", "InProgress"}
                        /\ after[i].status = "Completed"
                        /\ after[i].completedAt = now
                        /\ after[i].proofHash \in Proofs
                        /\ after[i] = [before[i] EXCEPT !.status = "Completed",
                                                        !.proofHash = after[i].proofHash,
                                                        !.completedAt = now]

C33_MilestoneForward == []C33_MilestoneCalls /\ [][C33_MilestoneStep]_vars

(* A milestone completed at an earlier time with a proof, next to one      *)
(* still Pending, in a campaign that has since been completed              *)
C33_Witness ==
    \E c \in CampaignIds :
        /\ campaigns[c].status = "Completed"
        /\ Len(campaignMilestones[c]) = 2
        /\ \E i \in 1..2, j \in 1..2 :
              /\ campaignMilestones[c][i].status = "Completed"
              /\ campaignMilestones[c][i].proofHash # ""
              /\ campaignMilestones[c][i].completedAt < now
              /\ campaignMilestones[c][j].status = "Pending"

----------------------------------------------------------------------------
(* C34: for every organization id at most one Verification proposal is     *)
(* ever created: createVerificationProposal fails once one exists for the  *)
(* id, executed or not; challengeNGO does not look at existing proposals,  *)
(* so Challenge proposals for one organization coexist, each listed in     *)
(* ngoChallenges[ngoId]; proposal ids are 1, 2, 3, ... in order of         *)
(* creation.                                                               *)
C34_ProposalsOf(ngoId, proposalType) ==
    {p \in 1..proposalIdCounter :
        proposalAt(p).ngoId = ngoId /\ proposalAt(p).proposalType = proposalType}

C34_OnePerOrganization ==
    /\ \A p \in GovProposalIds :
          IF p <= proposalIdCounter
          THEN proposalAt(p).proposalId = p
          ELSE proposalAt(p).proposalId = 0
    /\ \A i \in GovNgoIds :
          /\ Cardinality(C34_ProposalsOf(i, "Verification")) <= 1
          /\ C34_ProposalsOf(i, "Verification") =
                 {verificationProposalOf(i)} \ {0}
          /\ verificationProposalOf(i) # 0 =>
                \A caller \in Addr : createVerificationProposalErr(caller, i) # Ok
          /\ \A caller \in Addr :
                (challengeNGOErr(caller, i) = Ok) <=>
                    (userReputations[caller].score >= 100)
          /\ Range(challengesOf(i)) = C34_ProposalsOf(i, "Challenge")
          /\ \A j \in DOMAIN challengesOf(i), k \in DOMAIN challengesOf(i) :
                j < k => challengesOf(i)[j] < challengesOf(i)[k]

C34_CreationStep ==
    /\ proposalIdCounter' \in {proposalIdCounter, proposalIdCounter + 1}
    /\ proposalIdCounter' = proposalIdCounter + 1 =>
          /\ proposalAt(proposalIdCounter)'.proposalId = proposalIdCounter + 1
          /\ \A p \in 1..proposalIdCounter :
                proposalAt(p)'.proposalId = proposalAt(p).proposalId
    /\ \A i \in GovNgoIds :
          verificationProposalOf(i) # 0 =>
              verificationProposalOf(i)' = verificationProposalOf(i)

C34_SingleVerification == []C34_OnePerOrganization /\ [][C34_CreationStep]_vars

(* An organization whose Verification proposal has been executed and which *)
(* has a Challenge proposal as well, with a caller of enough reputation to *)
(* file another proposal                                                   *)
C34_Witness ==
    \E i \in GovNgoIds :
        /\ verificationProposalOf(i) # 0
        /\ proposalAt(verificationProposalOf(i)).executed
        /\ Len(challengesOf(i)) >= 1
        /\ \E caller \in Addr : userReputations[caller].score >= 100

----------------------------------------------------------------------------
(* C35: executeProposal changes only the proposal's executed flag and the  *)
(* proposer's score and success counters: the other users' reputations,    *)
(* the proposal's tallies and recorded votes, every other proposal, and    *)
(* all of the registry's state, the subject organization's status          *)
(* included, stay as they were, whether the proposal passed or not.        *)
C35_ExecuteStep ==
    \A p \in GovProposalIds :
        (~proposalAt(p).executed /\ proposalAt(p)'.executed) =>
            LET proposer == proposalAt(p).proposer
            IN  /\ proposalAt(p)' = [proposalAt(p) EXCEPT !.executed = TRUE]
                /\ \A q \in GovProposalIds \ {p} : proposalAt(q)' = proposalAt(q)
                /\ \A u \in GovUsers \ {proposer} :
                      userReputations'[u] = userReputations[u]
                /\ userReputations'[proposer].totalProposals =
                       userReputations[proposer].totalProposals
                /\ userReputations'[proposer].lastActivity =
                       userReputations[proposer].lastActivity
                /\ UNCHANGED <<ngoIdCounter, addressToNgoId, ngos,
                               adminVerificationFrozen>>
                /\ UNCHANGED <<governanceAdminRole, proposalIdCounter,
                               ngoVerificationProposals, ngoChallenges>>
                /\ UNCHANGED <<timeVars, providerVars, tokenVars, factoryVars>>

C35_ExecuteFrame == [][C35_ExecuteStep]_vars

(* A Verification proposal that passed and was executed, its proposer      *)
(* rewarded, about an organization that is registered and still Pending    *)
C35_Witness ==
    \E p \in GovProposalIds :
        /\ proposalAt(p).proposalId # 0 /\ proposalAt(p).executed
        /\ proposalAt(p).proposalType = "Verification"
        /\ proposalAt(p).upvotes > proposalAt(p).downvotes
        /\ userReputations[proposalAt(p).proposer].successfulVerifications >= 1
        /\ proposalAt(p).ngoId \in NgoIds
        /\ ngos[proposalAt(p).ngoId].ngoId # 0
        /\ ngos[proposalAt(p).ngoId].status = "Pending"

----------------------------------------------------------------------------
RECURSIVE SumFunds(_)
SumFunds(S) ==
    IF S = {} THEN 0
    ELSE LET c == CHOOSE x \in S : TRUE
         IN  campaignFunds[c] + SumFunds(S \ {c})

(* C36 (as claimed): for every campaign the total paid out by releaseFunds *)
(* under its id never exceeds that campaign's raisedAmount, and the        *)
(* balance the contract holds always covers the sum of campaignFunds over  *)
(* all campaigns.                                                          *)
C36_BalanceCoversEscrow ==
    /\ \A c \in CampaignIds : released[c] <= campaigns[c].raisedAmount
    /\ balance >= SumFunds(CampaignIds)

----------------------------------------------------------------------------
(* C37 (as claimed): executeProposal on an id for which no proposal has    *)
(* been created changes no state, and every proposal is unexecuted when    *)
(* createVerificationProposal or challengeNGO creates it.                  *)
C37_CreationStep ==
    \A p \in GovProposalIds :
        proposalAt(p).proposalId = 0 =>
            /\ proposalAt(p)'.proposalId = 0 => proposalAt(p)' = proposalAt(p)
            /\ proposalAt(p)'.proposalId # 0 => ~proposalAt(p)'.executed

C37_BornUnexecuted == [][C37_CreationStep]_vars

----------------------------------------------------------------------------
(* C38 (as claimed): castVote and executeProposal are never both enabled   *)
(* for the same proposal, and once a created proposal is executed its      *)
(* upvotes, downvotes and recorded votes never change.                     *)
C38_NeverBothEnabled ==
    \A p \in GovProposalIds, voter \in GovCallers :
        ~(castVoteErr(voter, p) = Ok /\ executeProposalErr(p) = Ok)

C38_ExecutedStep ==
    \A p \in GovProposalIds :
        (proposalAt(p).proposalId # 0 /\ proposalAt(p).executed) =>
            /\ proposalAt(p)'.upvotes = proposalAt(p).upvotes
            /\ proposalAt(p)'.downvotes = proposalAt(p).downvotes
            /\ proposalAt(p)'.votes = proposalAt(p).votes

C38_VotingBeforeExecution == []C38_NeverBothEnabled /\ [][C38_ExecutedStep]_vars

----------------------------------------------------------------------------
(* C39: a token's isRedeemed flag is true exactly when its status is       *)
(* Redeemed; redeemedBy, redeemedAt and proofOfServiceHash are set         *)
(* (non-zero, non-empty, issuedAt <= redeemedAt <= expiryDate) exactly     *)
(* when it is Redeemed; and once a token is Redeemed no step changes any   *)
(* field of its metadata.                                                  *)
C39_RedemptionFields ==
    \A t \in TokenIds :
        LET m == tokenMetadata[t]
        IN  /\ m.isRedeemed <=> m.status = "Redeemed"
            /\ m.status = "Redeemed" =>
                  /\ m.redeemedBy # Zero
                  /\ m.redeemedAt # 0
                  /\ m.proofOfServiceHash # ""
                  /\ m.issuedAt <= m.redeemedAt
                  /\ m.redeemedAt <= m.expiryDate
            /\ m.status # "Redeemed" =>
                  /\ m.redeemedBy = Zero
                  /\ m.redeemedAt = 0
                  /\ m.proofOfServiceHash = ""

C39_RedeemedStep ==
    \A t \in TokenIds :
        tokenMetadata[t].isRedeemed => tokenMetadata'[t] = tokenMetadata[t]

C39_RedeemedConsistent == []C39_RedemptionFields /\ [][C39_RedeemedStep]_vars

(* One token redeemed after the instant it was issued, next to a minted    *)
(* token that left Active without being redeemed                           *)
C39_Witness ==
    \E t, u \in TokenIds :
        /\ exists(t) /\ tokenMetadata[t].status = "Redeemed"
        /\ tokenMetadata[t].isRedeemed
        /\ tokenMetadata[t].issuedAt < tokenMetadata[t].redeemedAt
        /\ exists(u) /\ tokenMetadata[u].status \in {"Revoked", "Expired"}
        /\ ~tokenMetadata[u].isRedeemed

----------------------------------------------------------------------------
(* C40: a Verified organization is active, so isNGOVerified(identity)      *)
(* holds exactly when the identity is registered with status Verified; an  *)
(* organization that was deactivated (Suspended or Blacklisted) is never   *)
(* active or Verified again, and createCampaign by its identity fails      *)
(* whatever the arguments.                                                 *)
C40_VerifiedIsActive ==
    /\ \A n \in NgoIds : ngos[n].status = "Verified" => ngos[n].isActive
    /\ \A a \in Addr :
          isNGOVerified(a) <=>
              (addressToNgoId[a] # 0 /\ ngos[addressToNgoId[a]].status = "Verified")
    /\ \A n \in NgoIds :
          ngos[n].status \in {"Suspended", "Blacklisted"} =>
              /\ ~ngos[n].isActive
              /\ \A t \in 0..MaxAmount, d \in Durations :
                    createCampaignErr(ngos[n].ngoAddress, t, d) # Ok

C40_DeactivatedStep ==
    \A n \in NgoIds :
        (ngos[n].ngoId # 0 /\ ~ngos[n].isActive) =>
            /\ ~ngos'[n].isActive
            /\ ngos'[n].status \in {"Suspended", "Blacklisted"}

C40_DeactivationFinal == []C40_VerifiedIsActive /\ [][C40_DeactivatedStep]_vars

(* An organization that was Verified and is now Suspended, its identity    *)
(* still registered, while the factory is not paused                       *)
C40_Witness ==
    \E n \in NgoIds :
        /\ ngos[n].ngoId # 0 /\ ngos[n].status = "Suspended"
        /\ addressToNgoId[ngos[n].ngoAddress] = n
        /\ ~isNGOVerified(ngos[n].ngoAddress)
        /\ ~factoryPaused

=============================================================================
